---------------------------- MODULE Spec2Model ----------------------------
(***************************************************************************)
(* spin-sleep: SpinSleeper::sleep (src/src/lib.rs) and Interval::tick with *)
(* its missed-tick policies (src/util/src/interval.rs).                    *)
(*                                                                         *)
(* Time is a natural number of clock units.  `now` is the monotonic clock  *)
(* (Instant::now()); the environment advances it between any two steps of  *)
(* the program.  A call of sleep or tick is a sequence of steps, one per   *)
(* clock reading or blocking point, with `pc` the position of the caller.  *)
(***************************************************************************)
EXTENDS Integers, Sequences, FiniteSets, TLC

\* ------------------------------------------------------------------ bounds
\* The clock's horizon: no call is started that cannot end by MaxTime.
MaxTime == 9
\* Largest duration handed to SpinSleeper::sleep directly.
MaxDuration == 4
\* Largest native accuracy given to SpinSleeper::new.
MaxAccuracy == 2
\* Largest period and latest start given to interval_at; the Windows threads
\* enter their sleep calls up to clock MaxStart as well.
MaxPeriod == 3
MaxStart == 2
\* The busy-wait iteration counter saturates here (it only has to tell 0 from more).
MaxSpins == 2

\* The largest value of the 32-bit counters (rate_count, delta_count): it stands
\* for u32::MAX = 2^32 - 1, scaled down so that the counters reach it.
MaxCount == 4
\* Largest report period / report interval and largest target delta.
MaxReportPeriod == 3
MaxTargetDelta == 2
\* Finite target rates are 1..MaxRate per rate unit.
MaxRate == 5

\* One clock unit stands for 125 microseconds, so the non-Windows default
\* accuracy of 125_000 ns is one unit.
DEFAULT_NATIVE_SLEEP_ACCURACY == 1
\* The nanoseconds of one second, 1_000_000_000 in sleep_ns, scaled down so that
\* durations of more than a second are reached.
NANOS_PER_SEC == 3

\* Largest wPeriodMin that timeGetDevCaps reports.
MaxMinPeriod == 2
\* The nanoseconds of one waitable-timer interval, 100 in checked_dur2intervals,
\* scaled down to two clock units so that a duration can fall between intervals.
INTERVAL_NANOS == 2
\* The largest interval count that fits the timer's i64 due time; it stands for
\* i64::MAX, scaled down so that a duration exceeds it.
I64_MAX == 1

\* Largest period and latest clock reading of an Interval whose tick is long
\* overdue.
MaxLongPeriod == 20
MaxLateTime == 12
\* The largest value of a u64 (2^64 - 1 nanoseconds, about 584 years) and the
\* latest Instant the platform represents (far later), scaled down so that
\* periods and lateness exceed them.
U64_MAX == 5
INSTANT_MAX == 20

\* Times a clock source that is not monotonic goes backwards in one run.
MaxRegressions == 1
\* loop_start() calls such a program makes between two emitted reports.
MaxRegressLoops == 2

Behaviors == {"Burst", "Delay", "Skip"}
LoopPrograms == {"loop_sleep", "loop_report"}
\* The components a program may use.
Programs == {"sleep", "tick", "report", "loop_sleep", "loop_report"}
\* The threads of the process that sleep on Windows.
Threads == {"t1", "t2"}

\* ------------------------------------------------------------------- state
VARIABLES
    now,                  \* the monotonic clock
    pc,                   \* position of the calling thread
    op,                   \* the public operation in progress: "none", "sleep", "tick",
                          \* "loop_sleep"
    native_accuracy_ns,   \* SpinSleeper.native_accuracy_ns of the caller's own sleeper
    duration,             \* sleep(): the argument
    accuracy,             \* sleep(): self.native_accuracy_ns as a Duration
    start,                \* sleep(): let start = Instant::now()
    wake,                 \* thread_sleep(): earliest instant the OS may wake the thread
    next_tick,            \* Interval.next_tick
    period,               \* Interval.period
    missed_tick_behavior, \* Interval.missed_tick_behavior
    sleeper,              \* Interval.sleeper (its native_accuracy_ns)
    tick,                 \* tick(): let tick = self.next_tick
    tnow,                 \* tick(): let now = Instant::now()
    ret,                  \* tick(): the instant returned
    obs,                  \* what the current call did (observation, not program state)
    hist,                 \* what the Interval has done since construction (observation)
    report_period,        \* RateReporter.report_period
    rr_start,             \* RateReporter.start (the window's start)
    rate_count,           \* RateReporter.rate_count (u32)
    rr_ret,               \* RateReporter: the last call and what it returned
    rr_incs,              \* increment() calls since the window started (observation)
    target_delta,         \* LoopHelper.target_delta
    report_interval,      \* LoopHelper.report_interval
    lh_sleeper,           \* LoopHelper.sleeper (its native_accuracy_ns)
    last_loop_start,      \* LoopHelper.last_loop_start
    last_report,          \* LoopHelper.last_report
    delta_sum,            \* LoopHelper.delta_sum
    delta_count,          \* LoopHelper.delta_count (u32)
    lh_ret,               \* LoopHelper: the last call and what it returned
    lh_hist,              \* LoopHelper: what it has done since it was built (observation)
    win,                  \* Windows: each thread's HIGH_RES_TIMER and its native sleep call
    min_time_period,      \* Windows: MIN_TIME_PERIOD (0 while the cell is empty)
    raised,               \* Windows: timeBeginPeriod(p) requests not yet ended, for each p
    regressions,          \* times the clock source has gone backwards
    program               \* the component a program with such a clock source uses

callVars == <<duration, accuracy, start, wake, tick, tnow, ret, obs>>
intervalVars == <<next_tick, period, missed_tick_behavior, sleeper>>
reportVars == <<report_period, rr_start, rate_count, rr_ret, rr_incs>>
loopVars == <<target_delta, report_interval, lh_sleeper, last_loop_start, last_report,
              delta_sum, delta_count, lh_ret, lh_hist>>
winVars == <<win, min_time_period, raised>>
regressVars == <<regressions, program>>
vars == <<now, pc, op, native_accuracy_ns, duration, accuracy, start, wake,
          next_tick, period, missed_tick_behavior, sleeper, tick, tnow, ret, obs, hist,
          reportVars, loopVars, winVars, regressVars>>

Min(a, b) == IF a <= b THEN a ELSE b

\* Observation of one call: native sleeps made, the argument of the last one, the
\* busy-wait iterations run (saturating), the iterations already run when native
\* sleep was called, sleeper.sleep() calls made by tick(), the branch tick() took,
\* the clock when SpinSleeper::sleep and the whole call returned, and, for the
\* first tick() after a reset(), the clock of that reset() (-1 otherwise), and
\* whether the call is the first tick() of its Interval; for sleep_ns and sleep_s
\* the argument (nanoseconds, half clock units) and the two parts of the Duration
\* built from it.
NoObs == [nativeCalls |-> 0, nativeArg |-> 0, spins |-> 0, spinsBeforeNative |-> 0,
          sleepCalls |-> 0, branch |-> "none", sleepRetNow |-> 0, retNow |-> 0,
          afterReset |-> -1, first |-> FALSE, arg |-> 0, secs |-> 0, subsec_ns |-> 0]

\* Observation of the Interval's history: the start it was built with; the number
\* of tick() calls made so far if every one of them ran under Burst and reset()
\* was never called (-1 otherwise); the clock of the last missed tick resolved by
\* Delay (-1: none since construction or reset); and the current catch-up episode
\* under Burst: a tick() call found the clock `n` >= 1 whole periods past
\* next_tick at clock `at`, and `k` further tick() calls have begun at that same
\* clock reading (n = 0: no episode); whether the schedule still is the one the
\* Interval was built with (`anchored`: no reset() and no missed tick resolved by
\* Delay so far); and the clock of the reset() call, while no tick() has been
\* called since (-1 otherwise); the clock at which the Interval was built (-1: not
\* built); and whether tick() has been called.
NoEpisode == [n |-> 0, at |-> 0, k |-> 0]
NewHist(s) == [start |-> s, burstCalls |-> 0, delayAt |-> -1, episode |-> NoEpisode,
               anchored |-> TRUE, resetAt |-> -1, builtAt |-> 0, ticked |-> FALSE]

\* ------------------------------------------------------- SpinSleeper (lib.rs)
InstantSubWraps(later, earlier) == later - earlier
\* Instant::elapsed / Instant - Instant: saturating at zero.
InstantSub(later, earlier) == IF later >= earlier THEN later - earlier ELSE 0

\* Duration - Duration panics on underflow; -1 stands for the panic.
DurationSub(a, b) == IF a >= b THEN a - b ELSE -1

NeedsNativeSleepInclusive(d, acc) == d >= acc
\* `if duration > accuracy`
NeedsNativeSleep(d, acc) == d > acc

NativeSleepArgFull(d, acc) == d
\* `thread_sleep(duration - accuracy)`
NativeSleepArg(d, acc) == DurationSub(d, acc)

SpinConditionShort(s, n, d) == InstantSub(n, s) + 1 < d
SpinConditionInclusive(s, n, d) == InstantSub(n, s) <= d
\* `while start.elapsed() < duration`
SpinCondition(s, n, d) == InstantSub(n, s) < d

\* The clock moves on, by one unit, at any time.  (A call that has returned is
\* taken up by the caller at once: the caller's own time passes in "idle".)
ClockAdvance ==
    /\ now < MaxTime
    /\ pc # "done"
    /\ \A t \in Threads : win[t].pc # "done"
    /\ now' = now + 1
    /\ UNCHANGED <<pc, op, native_accuracy_ns, callVars, intervalVars, hist>>
    /\ UNCHANGED <<reportVars, loopVars, winVars, regressVars>>

\* SpinSleeper::new(native_accuracy_ns)
SpinSleeperNew ==
    /\ pc = "idle"
    /\ \E a \in 0..MaxAccuracy : native_accuracy_ns' = a
    /\ UNCHANGED <<now, pc, op, callVars, intervalVars, hist>>
    /\ UNCHANGED <<reportVars, loopVars, winVars, regressVars>>

\* The caller invokes sleeper.sleep(d).
SleepCall ==
    /\ pc = "idle"
    /\ \E d \in 0..MaxDuration :
        /\ now + d <= MaxTime
        /\ duration' = d
    /\ accuracy' = native_accuracy_ns
    /\ op' = "sleep"
    /\ pc' = "sleep_start"
    /\ obs' = NoObs
    /\ UNCHANGED <<now, native_accuracy_ns, start, wake, tick, tnow, ret, intervalVars, hist>>
    /\ UNCHANGED <<reportVars, loopVars, winVars, regressVars>>

\* `let start = Instant::now(); let accuracy = ..; if duration > accuracy {
\* thread_sleep(duration - accuracy) }`: the clock is read, and the thread blocks in
\* native sleep or goes straight to the busy-wait.
SleepStart ==
    /\ pc = "sleep_start"
    /\ start' = now
    /\ IF NeedsNativeSleep(duration, accuracy)
       THEN LET arg == NativeSleepArg(duration, accuracy) IN
            /\ wake' = now + arg
            /\ obs' = [obs EXCEPT !.nativeCalls = @ + 1, !.nativeArg = arg,
                                  !.spinsBeforeNative = obs.spins]
            /\ pc' = "native_wait"
       ELSE /\ pc' = "spin"
            /\ UNCHANGED <<wake, obs>>
    /\ UNCHANGED <<now, op, native_accuracy_ns, duration, accuracy, tick, tnow, ret,
                   intervalVars, hist>>
    /\ UNCHANGED <<reportVars, loopVars, winVars, regressVars>>

\* thread::sleep returns: never before the requested time, any time after it.
NativeSleepReturn ==
    /\ pc = "native_wait"
    /\ now >= wake
    /\ pc' = "spin"
    /\ wake' = 0
    /\ UNCHANGED <<now, op, native_accuracy_ns, duration, accuracy, start, tick, tnow, ret,
                   obs, intervalVars, hist>>
    /\ UNCHANGED <<reportVars, loopVars, winVars, regressVars>>

\* One iteration of the busy-wait: the condition holds, `thread::yield_now()`.
SpinIterate ==
    /\ pc = "spin"
    /\ SpinCondition(start, now, duration)
    /\ obs' = [obs EXCEPT !.spins = Min(@ + 1, MaxSpins)]
    /\ UNCHANGED <<now, pc, op, native_accuracy_ns, duration, accuracy, start, wake, tick,
                   tnow, ret, intervalVars, hist>>
    /\ UNCHANGED <<reportVars, loopVars, winVars, regressVars>>

\* The busy-wait condition is false: SpinSleeper::sleep returns to its caller.
SpinExit ==
    /\ pc = "spin"
    /\ ~SpinCondition(start, now, duration)
    /\ pc' = IF op = "tick" THEN "tick_resume" ELSE "done"
    /\ obs' = [obs EXCEPT !.sleepRetNow = now, !.retNow = IF op = "tick" THEN @ ELSE now]
    /\ UNCHANGED <<now, op, native_accuracy_ns, duration, accuracy, start, wake, tick,
                   tnow, ret, intervalVars, hist>>
    /\ UNCHANGED <<reportVars, loopVars, winVars, regressVars>>

\* The caller takes the result and is ready for its next call.
Return ==
    /\ pc = "done"
    /\ pc' = "idle"
    /\ op' = "none"
    /\ duration' = 0 /\ accuracy' = 0 /\ start' = 0 /\ wake' = 0
    /\ tick' = 0 /\ tnow' = 0 /\ ret' = 0
    /\ obs' = NoObs
    /\ UNCHANGED <<now, native_accuracy_ns, intervalVars, hist>>
    /\ UNCHANGED <<reportVars, loopVars, winVars, regressVars>>

\* ------------------------------------------- SpinSleeper: sleep_ns / sleep_s
SubsecNsUnreduced(n) == n
\* sleep_ns: `(nanoseconds % 1_000_000_000) as u32`
SubsecNs(n) == n % NANOS_PER_SEC

\* sleep_ns: `nanoseconds / 1_000_000_000`
WholeSeconds(n) == n \div NANOS_PER_SEC

\* Duration::new(secs, nanos): nanoseconds of a second or more carry over into
\* the seconds, so the total is secs seconds and nanos nanoseconds.
DurationNew(secs, nanos) == secs * NANOS_PER_SEC + nanos

SecondsArePositiveOrZero(h) == h >= 0
\* sleep_s: `if seconds > 0.0`
SecondsArePositive(h) == h > 0

\* Duration::from_secs_f64 of h half clock units: rounded to the Duration's unit.
DurationFromHalves(h) == (h + 1) \div 2

\* SpinSleeper::sleep_ns(n), up to its call of sleep.
SleepNsCall ==
    /\ pc = "idle"
    /\ \E n \in 0..MaxDuration :
        /\ now + n <= MaxTime
        /\ LET subsec_ns == SubsecNs(n)
               seconds == WholeSeconds(n)
           IN /\ duration' = DurationNew(seconds, subsec_ns)
              /\ obs' = [NoObs EXCEPT !.arg = n, !.secs = seconds, !.subsec_ns = subsec_ns]
    /\ accuracy' = native_accuracy_ns
    /\ op' = "sleep_ns"
    /\ pc' = "sleep_start"
    /\ UNCHANGED <<now, native_accuracy_ns, start, wake, tick, tnow, ret, intervalVars, hist>>
    /\ UNCHANGED <<reportVars, loopVars, winVars, regressVars>>

\* SpinSleeper::sleep_s(seconds), the seconds given in half clock units (negative,
\* zero or positive), up to its return or its call of sleep.
SleepSCall ==
    /\ pc = "idle"
    /\ \E h \in (-2)..(2 * MaxDuration) :
        /\ now + DurationFromHalves(h) <= MaxTime
        /\ IF SecondsArePositive(h)
           THEN /\ duration' = DurationFromHalves(h)
                /\ accuracy' = native_accuracy_ns
                /\ pc' = "sleep_start"
                /\ obs' = [NoObs EXCEPT !.arg = h]
           ELSE /\ pc' = "done"
                /\ obs' = [NoObs EXCEPT !.arg = h, !.branch = "nosleep", !.retNow = now]
                /\ UNCHANGED <<duration, accuracy>>
    /\ op' = "sleep_s"
    /\ UNCHANGED <<now, native_accuracy_ns, start, wake, tick, tnow, ret, intervalVars, hist>>
    /\ UNCHANGED <<reportVars, loopVars, winVars, regressVars>>

NextUnits ==
    \/ ClockAdvance
    \/ SpinSleeperNew
    \/ SleepNsCall
    \/ SleepSCall
    \/ SleepStart
    \/ NativeSleepReturn
    \/ SpinIterate
    \/ SpinExit
    \/ Return

\* The last call of a RateReporter and what it returned: `some` tells Some(rate)
\* from None, and the rate is the exact quotient count / elapsed.
RrRet(o, some, c, e) == [op |-> o, some |-> some, count |-> c, elapsed |-> e]
\* The last call of a LoopHelper and what it returned: the delta of loop_start(),
\* or the Some(count / sum) or None of report_rate().
\* `rate` is the target rate a build or set_target_rate() call was given.
LhRet(o, d, some, c, sum) ==
    [op |-> o, delta |-> d, some |-> some, count |-> c, sum |-> sum, rate |-> 0]

\* No RateReporter / no LoopHelper is in use.
InitNoReporter ==
    /\ report_period = 0 /\ rr_start = 0 /\ rate_count = 0
    /\ rr_ret = RrRet("new", FALSE, 0, 0)
    /\ rr_incs = 0

\* Observation of a LoopHelper built at clock b: whether loop_start() was called,
\* whether loop_sleep() was called since the last loop_start(), and the number of
\* loop_start() calls since the last emitted report (counted up to MaxLoops) with
\* the sum of the deltas they returned.
NewLoopHist(b) == [builtAt |-> b, started |-> FALSE, slept |-> FALSE, loops |-> 0, sum |-> 0]

InitNoLoopHelper ==
    /\ target_delta = 0 /\ report_interval = 0 /\ lh_sleeper = 0
    /\ last_loop_start = 0 /\ last_report = 0 /\ delta_sum = 0 /\ delta_count = 0
    /\ lh_ret = LhRet("build", 0, FALSE, 0, 0)
    /\ lh_hist = NewLoopHist(0)

\* A thread that is not sleeping: `timer` is its thread-local HIGH_RES_TIMER
\* ("uninit" until first used, then "ok" or "err"). The other fields describe its
\* sleep call: the duration asked for, the clock when it was called, the earliest
\* clock at which the wait or sleep in progress ends, the period passed to
\* timeBeginPeriod, and as observations the path that completed the call, the
\* reason high_res_sleep failed, the timeBeginPeriod calls made, the clock
\* units that had elapsed when the call returned, and, until its fallback sleep
\* ends, whether the call ran the timeGetDevCaps query and the query failed.
WinIdle(tm) ==
    [pc |-> "idle", timer |-> tm, dur |-> 0, start |-> 0, wake |-> 0, p |-> 0,
     path |-> "none", err |-> "none", begins |-> 0, slept |-> 0, query_failed |-> FALSE]

\* No thread has slept on Windows yet.
InitNoWindows ==
    /\ win = [t \in Threads |-> WinIdle("uninit")]
    /\ min_time_period = 0
    /\ raised = [p \in 1..MaxMinPeriod |-> 0]

\* The clock source is monotonic.
InitNoRegress ==
    /\ regressions = 0
    /\ program = "none"

\* No Interval is in use.
InitNoInterval ==
    /\ next_tick = 0 /\ period = 1 /\ missed_tick_behavior = "Skip"
    /\ sleeper = DEFAULT_NATIVE_SLEEP_ACCURACY
    /\ hist = NewHist(0)

\* No call is in progress.
InitNoCall ==
    /\ op = "none"
    /\ duration = 0 /\ accuracy = 0 /\ start = 0 /\ wake = 0
    /\ tick = 0 /\ tnow = 0 /\ ret = 0
    /\ obs = NoObs

InitCommon ==
    /\ now = 0
    /\ pc = "idle"
    /\ InitNoCall

\* SpinSleeper::default(), and an Interval that is not used.
InitSleep ==
    /\ InitCommon
    /\ native_accuracy_ns = DEFAULT_NATIVE_SLEEP_ACCURACY
    /\ InitNoInterval
    /\ InitNoReporter
    /\ InitNoLoopHelper
    /\ InitNoWindows
    /\ InitNoRegress

NextSleep ==
    \/ ClockAdvance
    \/ SpinSleeperNew
    \/ SleepCall
    \/ SleepStart
    \/ NativeSleepReturn
    \/ SpinIterate
    \/ SpinExit
    \/ Return

SpecSleep == InitSleep /\ [][NextSleep]_vars

\* The entry points sleep_ns and sleep_s of a SpinSleeper.
SpecUnits == InitSleep /\ [][NextUnits]_vars

\* ------------------------------------------------- Interval (interval.rs)
IsMissedInclusive(n, t) == n >= t
\* `if now > tick`
IsMissed(n, t) == n > t

MissedTickResultNow(t, n) == n
\* `return tick` of the missed branch
MissedTickResult(t, n) == t

OnTimeNextTickDrift(t, p) == now + p
\* `self.next_tick = tick + self.period`
OnTimeNextTick(t, p) == t + p

BurstNextTickFromNow(missed_tick, n, p) == n + p
\* `Self::Burst => missed_tick + period`
BurstNextTick(missed_tick, n, p) == missed_tick + p

DelayNextTickFromMissed(missed_tick, n, p) == missed_tick + p
\* `Self::Delay => now + period`
DelayNextTick(missed_tick, n, p) == n + p

SkipNextTickFromNow(missed_tick, n, p) == n + p
SkipNextTickFloor(missed_tick, n, p) == n - (InstantSub(n, missed_tick) % p)
\* Instant + Duration; -1 stands for the panic when the sum is no Instant.
InstantAdd(i, d) == IF i + d > INSTANT_MAX THEN -1 ELSE i + d

NanosToU64Saturates(x) == IF x > U64_MAX THEN U64_MAX ELSE x
\* `u128.try_into().expect(..)` to u64; -1 stands for the panic.
NanosToU64(x) == IF x > U64_MAX THEN -1 ELSE x

\* `Self::Skip => now + period - Duration::from_nanos(((now - missed_tick).as_nanos()
\* % period.as_nanos()).try_into().expect(..))`; -1 stands for a panic of the
\* addition or of the conversion.  The remainder is below the period, so the
\* subtraction cannot fail.
SkipNextTick(missed_tick, n, p) ==
    LET sum == InstantAdd(n, p)
        rem == NanosToU64(InstantSub(n, missed_tick) % p)
    IN IF sum < 0 \/ rem < 0 THEN -1 ELSE sum - rem

\* MissedTickBehavior::next_tick
MissedNextTick(behavior, missed_tick, n, p) ==
    CASE behavior = "Burst" -> BurstNextTick(missed_tick, n, p)
      [] behavior = "Delay" -> DelayNextTick(missed_tick, n, p)
      [] behavior = "Skip" -> SkipNextTick(missed_tick, n, p)

\* The catch-up episode a tick() call at clock n belongs to: the one in progress
\* if the clock has not moved since it began, else a new one if this call finds
\* the clock a whole number n >= 1 of periods past next_tick.
EpisodeAt(n) ==
    LET ep == hist.episode IN
    IF missed_tick_behavior = "Burst" /\ ep.n > 0 /\ ep.at = n
    THEN [ep EXCEPT !.k = @ + 1]
    ELSE IF /\ missed_tick_behavior = "Burst"
            /\ n > next_tick
            /\ (n - next_tick) % period = 0
         THEN [n |-> (n - next_tick) \div period, at |-> n, k |-> 0]
         ELSE NoEpisode

\* Interval::tick(), up to its return (missed) or its call of the sleeper (on time).
TickCall ==
    /\ pc = "idle"
    /\ next_tick <= MaxTime
    /\ LET t == next_tick
           n == now
       IN
        /\ tick' = t
        /\ tnow' = n
        /\ op' = "tick"
        /\ hist' = [hist EXCEPT
                !.burstCalls = IF @ >= 0 /\ missed_tick_behavior = "Burst" THEN @ + 1 ELSE -1,
                !.delayAt = IF IsMissed(n, t) /\ missed_tick_behavior = "Delay" THEN n ELSE @,
                !.episode = EpisodeAt(n),
                !.anchored = @ /\ ~(IsMissed(n, t) /\ missed_tick_behavior = "Delay"),
                !.resetAt = -1,
                !.ticked = TRUE]
        /\ IF IsMissed(n, t)
           THEN /\ IF MissedNextTick(missed_tick_behavior, t, n, period) < 0
                   THEN /\ pc' = "panicked"
                        /\ UNCHANGED <<next_tick, ret>>
                   ELSE /\ next_tick' = MissedNextTick(missed_tick_behavior, t, n, period)
                        /\ ret' = MissedTickResult(t, n)
                        /\ pc' = "done"
                /\ obs' = [NoObs EXCEPT !.branch = "missed", !.retNow = n,
                                     !.afterReset = hist.resetAt,
                                     !.first = ~hist.ticked]
                /\ UNCHANGED <<duration, accuracy>>
           ELSE /\ duration' = InstantSub(t, n)
                /\ accuracy' = sleeper
                /\ pc' = "sleep_start"
                /\ obs' = [NoObs EXCEPT !.branch = "ontime", !.sleepCalls = 1,
                                     !.afterReset = hist.resetAt,
                                     !.first = ~hist.ticked]
                /\ UNCHANGED <<next_tick, ret>>
    /\ UNCHANGED <<now, native_accuracy_ns, start, wake, period, missed_tick_behavior, sleeper>>
    /\ UNCHANGED <<reportVars, loopVars, winVars, regressVars>>

\* Interval::tick() after `self.sleeper.sleep(tick - now)` has returned.
TickResume ==
    /\ pc = "tick_resume"
    /\ next_tick' = OnTimeNextTick(tick, period)
    /\ ret' = tick
    /\ pc' = "done"
    /\ obs' = [obs EXCEPT !.retNow = now]
    /\ UNCHANGED <<now, op, native_accuracy_ns, duration, accuracy, start, wake, tick, tnow,
                   period, missed_tick_behavior, sleeper, hist>>
    /\ UNCHANGED <<reportVars, loopVars, winVars, regressVars>>

ResetNextTickFromOld(old, n, p) == old + p
\* The next tick reset() schedules.
ResetNextTick(old, n, p) == n + p

\* Interval::reset()
Reset ==
    /\ pc = "idle"
    /\ next_tick' = ResetNextTick(next_tick, now, period)
    /\ hist' = [hist EXCEPT !.burstCalls = -1, !.delayAt = -1, !.episode = NoEpisode,
                            !.anchored = FALSE, !.resetAt = now]
    /\ UNCHANGED <<now, pc, op, native_accuracy_ns, callVars, period, missed_tick_behavior,
                   sleeper>>
    /\ UNCHANGED <<reportVars, loopVars, winVars, regressVars>>

\* Interval::set_missed_tick_behavior / with_missed_tick_behavior
SetMissedTickBehavior ==
    /\ pc = "idle"
    /\ \E b \in Behaviors \ {missed_tick_behavior} : missed_tick_behavior' = b
    /\ hist' = [hist EXCEPT !.episode = NoEpisode]
    /\ UNCHANGED <<now, pc, op, native_accuracy_ns, callVars, next_tick, period, sleeper>>
    /\ UNCHANGED <<reportVars, loopVars, winVars, regressVars>>

\* Interval::set_spin_sleeper / with_spin_sleeper
SetSpinSleeper ==
    /\ pc = "idle"
    /\ \E a \in (0..MaxAccuracy) \ {sleeper} : sleeper' = a
    /\ UNCHANGED <<now, pc, op, native_accuracy_ns, callVars, next_tick, period,
                   missed_tick_behavior, hist>>
    /\ UNCHANGED <<reportVars, loopVars, winVars, regressVars>>

\* interval_at(start, period), period > 0, at clock 0: the default behavior Skip
\* and the default sleeper.  interval(period) is the case start = 0.
InitInterval ==
    /\ InitCommon
    /\ native_accuracy_ns = DEFAULT_NATIVE_SLEEP_ACCURACY
    /\ \E s \in 0..MaxStart, p \in 1..MaxPeriod :
        /\ next_tick = s
        /\ period = p
        /\ hist = NewHist(s)
    /\ missed_tick_behavior = "Skip"
    /\ sleeper = DEFAULT_NATIVE_SLEEP_ACCURACY
    /\ InitNoReporter
    /\ InitNoLoopHelper
    /\ InitNoWindows
    /\ InitNoRegress

NextInterval ==
    \/ ClockAdvance
    \/ TickCall
    \/ SleepStart
    \/ NativeSleepReturn
    \/ SpinIterate
    \/ SpinExit
    \/ TickResume
    \/ Return
    \/ Reset
    \/ SetMissedTickBehavior
    \/ SetSpinSleeper

SpecInterval == InitInterval /\ [][NextInterval]_vars

\* The calls of one thread under the scheduling the code relies on: the monotonic
\* clock keeps advancing, native sleep returns once its time has come, and the
\* thread goes on executing the straight-line code and the busy-wait loop's exit.
NextCalls ==
    \/ ClockAdvance
    \/ SleepCall
    \/ TickCall
    \/ SleepStart
    \/ NativeSleepReturn
    \/ SpinIterate
    \/ SpinExit
    \/ TickResume
    \/ Return

CallFairness ==
    /\ WF_vars(ClockAdvance)
    /\ WF_vars(SleepStart)
    /\ WF_vars(NativeSleepReturn)
    /\ WF_vars(SpinExit)
    /\ WF_vars(TickResume)

SpecCallsFair == InitInterval /\ [][NextCalls]_vars /\ CallFairness

\* An Interval whose tick is overdue, possibly by longer than a u64 of
\* nanoseconds holds, with the default policy Skip and a period of any length.
InitSkip ==
    /\ pc = "idle"
    /\ InitNoCall
    /\ native_accuracy_ns = DEFAULT_NATIVE_SLEEP_ACCURACY
    /\ \E n \in 1..MaxLateTime, s \in 0..MaxStart, p \in 1..MaxLongPeriod :
        /\ s < n
        /\ now = n
        /\ next_tick = s
        /\ period = p
        /\ hist = NewHist(s)
    /\ missed_tick_behavior = "Skip"
    /\ sleeper = DEFAULT_NATIVE_SLEEP_ACCURACY
    /\ InitNoReporter
    /\ InitNoLoopHelper
    /\ InitNoWindows
    /\ InitNoRegress

NextSkip ==
    \/ TickCall
    \/ Return

SpecSkip == InitSkip /\ [][NextSkip]_vars

\* ------------------------------------ Interval: construction (interval.rs)
PeriodIsValidAlways(p) == TRUE
\* assert!(period > Duration::ZERO, "`period` must be non-zero.")
PeriodIsValid(p) == p > 0

InitialNextTickAfterPeriod(s, p) == s + p
\* The first tick of an Interval built with `start` s and `period` p.
InitialNextTick(s, p) == s

\* interval_at(start, period); interval(period) is the case start = now.  A zero
\* period panics and no Interval is produced.
IntervalAtFrom(S) ==
    /\ pc = "unbuilt"
    /\ now <= MaxStart
    /\ \E s \in S, p \in 0..MaxPeriod :
        IF PeriodIsValid(p)
        THEN /\ pc' = "idle"
             /\ next_tick' = InitialNextTick(s, p)
             /\ period' = p
             /\ missed_tick_behavior' = "Skip"
             /\ sleeper' = DEFAULT_NATIVE_SLEEP_ACCURACY
             /\ hist' = [NewHist(s) EXCEPT !.builtAt = now]
        ELSE /\ pc' = "panicked"
             /\ UNCHANGED <<intervalVars, hist>>
    /\ UNCHANGED <<now, op, native_accuracy_ns, callVars, reportVars, loopVars, winVars, regressVars>>

\* interval_at(start, period)
IntervalAt == IntervalAtFrom(0..MaxStart)

\* interval(period): `interval_at(Instant::now(), period)`
IntervalNow == IntervalAtFrom({now})

\* The program before it builds its Interval.
InitConstruct ==
    /\ now = 0
    /\ pc = "unbuilt"
    /\ InitNoCall
    /\ native_accuracy_ns = DEFAULT_NATIVE_SLEEP_ACCURACY
    /\ next_tick = 0 /\ period = 0 /\ missed_tick_behavior = "Skip"
    /\ sleeper = DEFAULT_NATIVE_SLEEP_ACCURACY
    /\ hist = [NewHist(0) EXCEPT !.builtAt = -1]
    /\ InitNoReporter
    /\ InitNoLoopHelper
    /\ InitNoWindows
    /\ InitNoRegress

NextConstruct ==
    \/ ClockAdvance
    \/ IntervalAt
    \/ SetMissedTickBehavior
    \/ TickCall
    \/ SleepStart
    \/ NativeSleepReturn
    \/ SpinIterate
    \/ SpinExit
    \/ TickResume
    \/ Return

SpecConstruct == InitConstruct /\ [][NextConstruct]_vars

\* A program that builds its Interval with interval(period), configures it with
\* the setters, and calls tick() and reset().
NextConfig ==
    \/ ClockAdvance
    \/ IntervalNow
    \/ SetMissedTickBehavior
    \/ SetSpinSleeper
    \/ Reset
    \/ TickCall
    \/ SleepStart
    \/ NativeSleepReturn
    \/ SpinIterate
    \/ SpinExit
    \/ TickResume
    \/ Return

SpecConfig == InitConstruct /\ [][NextConfig]_vars

\* --------------------------------------------------- RateReporter (report.rs)
SaturatingAdd1Wraps(c) == (c + 1) % (MaxCount + 1)
\* `u32::saturating_add(1)`
SaturatingAdd1(c) == IF c >= MaxCount THEN MaxCount ELSE c + 1

ReportTooEarlyInclusive(elapsed, rp) == elapsed <= rp
\* `if elapsed < self.report_period { return None; }`
ReportTooEarly(elapsed, rp) == elapsed < rp

\* increment() is followed only while the observation rr_incs can count it.
MaxIncrements == MaxCount + 2

nonReportVars == <<pc, op, native_accuracy_ns, callVars, intervalVars, hist, loopVars, winVars, regressVars>>

\* RateReporter::new(report_period)
RateReporterNew ==
    /\ pc = "idle"
    /\ \E rp \in 0..MaxReportPeriod : report_period' = rp
    /\ rr_start' = now
    /\ rate_count' = 0
    /\ rr_ret' = RrRet("new", FALSE, 0, 0)
    /\ rr_incs' = 0
    /\ UNCHANGED <<now, nonReportVars>>

\* RateReporter::increment()
Increment ==
    /\ pc = "idle"
    /\ rr_incs < MaxIncrements
    /\ rate_count' = SaturatingAdd1(rate_count)
    /\ rr_ret' = RrRet("increment", FALSE, 0, 0)
    /\ rr_incs' = rr_incs + 1
    /\ UNCHANGED <<now, report_period, rr_start, nonReportVars>>

ReportOfLosesCount(o, c) ==
    LET elapsed == InstantSub(now, rr_start) IN
    IF ReportTooEarly(elapsed, report_period)
    THEN /\ rr_ret' = RrRet(o, FALSE, 0, 0)
         /\ rate_count' = 0
         /\ UNCHANGED rr_start
    ELSE /\ rr_ret' = RrRet(o, TRUE, c, elapsed)
         /\ rate_count' = 0
         /\ rr_start' = now
\* The body of RateReporter::report() on a count c, called as operation o.
ReportOf(o, c) ==
    LET elapsed == InstantSub(now, rr_start) IN
    IF ReportTooEarly(elapsed, report_period)
    THEN /\ rr_ret' = RrRet(o, FALSE, 0, 0)
         /\ rate_count' = c
         /\ UNCHANGED rr_start
    ELSE /\ rr_ret' = RrRet(o, TRUE, c, elapsed)
         /\ rate_count' = 0
         /\ rr_start' = now

\* RateReporter::report()
Report ==
    /\ pc = "idle"
    /\ ReportOf("report", rate_count)
    /\ rr_incs' = IF rr_ret'.some THEN 0 ELSE rr_incs
    /\ UNCHANGED <<now, report_period, nonReportVars>>

\* RateReporter::increment_and_report(): increment(), then report()
IncrementAndReport ==
    /\ pc = "idle"
    /\ rr_incs < MaxIncrements
    /\ ReportOf("increment_and_report", SaturatingAdd1(rate_count))
    /\ rr_incs' = IF rr_ret'.some THEN 0 ELSE rr_incs + 1
    /\ UNCHANGED <<now, report_period, nonReportVars>>

RateResetKeepsCount(c) == c
\* RateReporter::reset(): `self.rate_count = 0`
RateResetCount(c) == 0

\* RateReporter::reset()
RateReset ==
    /\ pc = "idle"
    /\ rate_count' = RateResetCount(rate_count)
    /\ rr_start' = now
    /\ rr_ret' = RrRet("reset", FALSE, 0, 0)
    /\ rr_incs' = 0
    /\ UNCHANGED <<now, report_period, nonReportVars>>

\* RateReporter::new(report_period) at clock 0.
InitReport ==
    /\ InitCommon
    /\ native_accuracy_ns = DEFAULT_NATIVE_SLEEP_ACCURACY
    /\ InitNoInterval
    /\ InitNoLoopHelper
    /\ InitNoWindows
    /\ InitNoRegress
    /\ \E rp \in 0..MaxReportPeriod : report_period = rp
    /\ rr_start = 0
    /\ rate_count = 0
    /\ rr_ret = RrRet("new", FALSE, 0, 0)
    /\ rr_incs = 0

NextReport ==
    \/ ClockAdvance
    \/ RateReporterNew
    \/ Increment
    \/ Report
    \/ IncrementAndReport
    \/ RateReset

SpecReport == InitReport /\ [][NextReport]_vars

\* ------------------------------------------------------------ LoopHelper
WrappingAdd1Saturates(c) == IF c >= MaxCount THEN MaxCount ELSE c + 1
\* u32::wrapping_add(1), MaxCount standing for u32::MAX.
WrappingAdd1(c) == (c + 1) % (MaxCount + 1)

\* loop_start() calls in one window are counted up to MaxLoops.
MaxLoops == MaxCount + 2

ReportRateDueInclusive(elapsed, ri, count) == elapsed >= ri /\ count > 0
\* The condition under which report_rate() emits a rate.
ReportRateDue(elapsed, ri, count) == elapsed > ri /\ count > 0

nonLoopVars == <<pc, op, native_accuracy_ns, callVars, intervalVars, hist, reportVars, winVars, regressVars>>

\* The time over which a rate counts (one second), in clock units: the target
\* delta of the rate 1.
RateUnit == MaxTargetDelta
\* f64::INFINITY, above every finite rate.
INFINITY == MaxRate + 1
\* The target rates a caller passes: 0, the finite rates, and INFINITY.
Rates == 0..INFINITY

\* Division rounded to the nearest integer, ties to even, as the conversion of a
\* float number of seconds to a Duration rounds to whole nanoseconds.
RoundDiv(a, b) ==
    LET q == a \div b
        r == a % b
    IN IF 2 * r > b \/ (2 * r = b /\ q % 2 = 1) THEN q + 1 ELSE q

TargetDeltaOfCeil(R) ==
    IF R = INFINITY THEN 0
    ELSE IF R <= 0 THEN -1
    ELSE (RateUnit + R - 1) \div R
TargetDeltaOfAny(R) ==
    IF R = INFINITY THEN 0
    ELSE IF R <= 0 THEN RateUnit
    ELSE RoundDiv(RateUnit, R)
\* Duration::from_secs_f64(1.0 / target_rate): 1 / INFINITY is 0; 1 / 0 is
\* infinite and a negative quotient is negative, and from_secs_f64 panics on
\* both (-1); every other quotient is rounded to the clock's unit.
TargetDeltaOf(R) ==
    IF R = INFINITY THEN 0
    ELSE IF R <= 0 THEN -1
    ELSE RoundDiv(RateUnit, R)

\* An lh_ret of a call that was given the target rate R.
LhRate(o, R) == [LhRet(o, 0, FALSE, 0, 0) EXCEPT !.rate = R]

\* LoopHelperBuilder::build_with_target_rate(R) on a builder given a report
\* interval of RIS and a native accuracy of ACCS; build_without_target_rate() is
\* the case R = INFINITY.  The call panics when 1 / R is no Duration, and no
\* LoopHelper is produced.
LoopHelperBuild(RS, RIS, ACCS) ==
    /\ pc = "unbuilt"
    /\ \E R \in RS :
        /\ lh_ret' = LhRate("build", R)
        /\ IF TargetDeltaOf(R) < 0
           THEN /\ pc' = "panicked"
                /\ UNCHANGED <<target_delta, report_interval, lh_sleeper, last_loop_start,
                               last_report, delta_sum, delta_count, lh_hist>>
           ELSE /\ pc' = "idle"
                /\ target_delta' = TargetDeltaOf(R)
                /\ \E ri \in RIS : report_interval' = ri
                /\ \E acc \in ACCS : lh_sleeper' = acc
                /\ last_loop_start' = now
                /\ last_report' = now
                /\ delta_sum' = 0
                /\ delta_count' = 0
                /\ lh_hist' = NewLoopHist(now)
    /\ UNCHANGED <<now, op, native_accuracy_ns, callVars, intervalVars, hist, reportVars, winVars, regressVars>>

\* The builder's report interval when none is set: `Duration::from_secs(1)`.
DefaultReportInterval == RateUnit

\* builder().report_interval(ri).build_without_target_rate()
BuildWithoutTargetRate ==
    LoopHelperBuild({INFINITY}, 0..MaxReportPeriod, {DEFAULT_NATIVE_SLEEP_ACCURACY})

\* builder().native_accuracy_ns(acc).build_with_target_rate(R)
BuildWithAccuracy ==
    LoopHelperBuild(Rates, {DefaultReportInterval}, 0..MaxAccuracy)

\* builder().build_with_target_rate(R)
BuildWithTargetRate ==
    LoopHelperBuild(Rates, {DefaultReportInterval}, {DEFAULT_NATIVE_SLEEP_ACCURACY})

\* LoopHelper::set_target_rate(R): the assignment is not reached when the
\* conversion panics.
SetTargetRate ==
    /\ pc = "idle"
    /\ \E R \in Rates :
        /\ lh_ret' = LhRate("set_target_rate", R)
        /\ IF TargetDeltaOf(R) < 0
           THEN /\ pc' = "panicked"
                /\ UNCHANGED target_delta
           ELSE /\ target_delta' = TargetDeltaOf(R)
                /\ UNCHANGED pc
    /\ UNCHANGED <<now, op, native_accuracy_ns, callVars, intervalVars, hist, reportVars, winVars, regressVars>>
    /\ UNCHANGED <<report_interval, lh_sleeper, last_loop_start, last_report, delta_sum,
                   delta_count, lh_hist>>

\* LoopHelper::target_rate(): 1.0 / target_delta, returned as the exact quotient
\* count / sum (infinite when target_delta is 0).
TargetRate ==
    /\ pc = "idle"
    /\ lh_ret' = LhRet("target_rate", 0, TRUE, RateUnit, target_delta)
    /\ UNCHANGED <<now, target_delta, report_interval, lh_sleeper, last_loop_start,
                   last_report, delta_sum, delta_count, lh_hist, nonLoopVars>>

LoopNeedsSleepInclusive(elapsed, td) == elapsed <= td
\* loop_sleep: `if elapsed < self.target_delta`
LoopNeedsSleep(elapsed, td) == elapsed < td

LoopSleepArgFull(td, elapsed) == td
\* loop_sleep: `self.target_delta - elapsed`
LoopSleepArg(td, elapsed) == DurationSub(td, elapsed)

\* LoopHelper::loop_sleep(), up to its return (the delta has elapsed) or its call
\* of the sleeper; `tnow` holds the clock reading of `last_loop_start.elapsed()`.
LoopSleepCall ==
    /\ pc = "idle"
    /\ last_loop_start + target_delta <= MaxTime
    /\ op' = "loop_sleep"
    /\ tnow' = now
    /\ lh_ret' = LhRet("loop_sleep", 0, FALSE, 0, 0)
    /\ lh_hist' = [lh_hist EXCEPT !.slept = TRUE]
    /\ LET elapsed == InstantSub(now, last_loop_start) IN
       IF LoopNeedsSleep(elapsed, target_delta)
       THEN /\ duration' = LoopSleepArg(target_delta, elapsed)
            /\ accuracy' = lh_sleeper
            /\ pc' = "sleep_start"
            /\ obs' = [NoObs EXCEPT !.branch = "sleep", !.sleepCalls = 1]
       ELSE /\ pc' = "done"
            /\ obs' = [NoObs EXCEPT !.branch = "nosleep", !.retNow = now]
            /\ UNCHANGED <<duration, accuracy>>
    /\ UNCHANGED <<now, native_accuracy_ns, start, wake, tick, ret, intervalVars, hist,
                   reportVars, winVars, regressVars>>
    /\ UNCHANGED <<target_delta, report_interval, lh_sleeper, last_loop_start, last_report,
                   delta_sum, delta_count>>

\* LoopHelper::loop_start()
LoopStart ==
    /\ pc = "idle"
    /\ LET it_start == now
           delta == InstantSub(it_start, last_loop_start)
       IN /\ last_loop_start' = it_start
          /\ delta_sum' = delta_sum + delta
          /\ delta_count' = WrappingAdd1(delta_count)
          /\ lh_ret' = LhRet("loop_start", delta, FALSE, 0, 0)
          /\ lh_hist' = [lh_hist EXCEPT !.started = TRUE, !.slept = FALSE,
                                        !.loops = Min(@ + 1, MaxLoops), !.sum = @ + delta]
    /\ UNCHANGED <<now, target_delta, report_interval, lh_sleeper, last_report, nonLoopVars>>

ReportRateClearsOnNone ==
    /\ pc = "idle"
    /\ IF ReportRateDue(InstantSub(now, last_report), report_interval, delta_count)
       THEN /\ lh_ret' = LhRet("report_rate", 0, TRUE, delta_count, delta_sum)
            /\ delta_sum' = 0
            /\ delta_count' = 0
            /\ last_report' = now
            /\ lh_hist' = [lh_hist EXCEPT !.loops = 0, !.sum = 0]
       ELSE /\ lh_ret' = LhRet("report_rate", 0, FALSE, 0, 0)
            /\ delta_sum' = 0
            /\ delta_count' = 0
            /\ UNCHANGED <<last_report, lh_hist>>
    /\ UNCHANGED <<now, target_delta, report_interval, lh_sleeper, last_loop_start,
                   nonLoopVars>>
\* LoopHelper::report_rate()
ReportRate ==
    /\ pc = "idle"
    /\ IF ReportRateDue(InstantSub(now, last_report), report_interval, delta_count)
       THEN /\ lh_ret' = LhRet("report_rate", 0, TRUE, delta_count, delta_sum)
            /\ delta_sum' = 0
            /\ delta_count' = 0
            /\ last_report' = now
            /\ lh_hist' = [lh_hist EXCEPT !.loops = 0, !.sum = 0]
       ELSE /\ lh_ret' = LhRet("report_rate", 0, FALSE, 0, 0)
            /\ UNCHANGED <<delta_sum, delta_count, last_report, lh_hist>>
    /\ UNCHANGED <<now, target_delta, report_interval, lh_sleeper, last_loop_start,
                   nonLoopVars>>

\* The program before it builds its LoopHelper.
InitLoop ==
    /\ now = 0
    /\ pc = "unbuilt"
    /\ InitNoCall
    /\ native_accuracy_ns = DEFAULT_NATIVE_SLEEP_ACCURACY
    /\ InitNoInterval
    /\ InitNoReporter
    /\ InitNoLoopHelper
    /\ InitNoWindows
    /\ InitNoRegress

NextLoop ==
    \/ ClockAdvance
    \/ BuildWithoutTargetRate
    \/ LoopStart
    \/ ReportRate

SpecLoop == InitLoop /\ [][NextLoop]_vars

\* A loop that calls loop_start() and loop_sleep().
NextLoopSleep ==
    \/ ClockAdvance
    \/ BuildWithAccuracy
    \/ LoopStart
    \/ LoopSleepCall
    \/ SleepStart
    \/ NativeSleepReturn
    \/ SpinIterate
    \/ SpinExit
    \/ Return

SpecLoopSleep == InitLoop /\ [][NextLoopSleep]_vars

\* A loop whose target rate is set and read.
NextLoopRate ==
    \/ ClockAdvance
    \/ BuildWithTargetRate
    \/ LoopStart
    \/ SetTargetRate
    \/ TargetRate

SpecLoopRate == InitLoop /\ [][NextLoopRate]_vars

\* ------------------------------------------- A clock source that regresses
\* Instant::now() returns an earlier reading than before.
ClockRegress ==
    /\ regressions < MaxRegressions
    /\ pc # "done"
    /\ \E n \in 0..(now - 1) : now' = n
    /\ regressions' = regressions + 1
    /\ UNCHANGED <<pc, op, native_accuracy_ns, callVars, intervalVars, hist, reportVars,
                   loopVars, winVars, program>>

\* A program that uses one of the components: a SpinSleeper, an Interval built
\* at clock 0 by interval(p), a RateReporter, or a LoopHelper built at clock 0 by
\* builder().build_with_target_rate(R), either to pace its loop or to report
\* the loop's rate.
InitRegress ==
    /\ now = 0
    /\ InitNoCall
    /\ native_accuracy_ns = DEFAULT_NATIVE_SLEEP_ACCURACY
    /\ regressions = 0
    /\ \E prog \in Programs :
        /\ program = prog
        /\ pc = "idle"
        /\ IF prog = "tick"
           THEN /\ \E p \in 1..MaxPeriod :
                    /\ next_tick = 0
                    /\ period = p
                    /\ hist = NewHist(0)
                /\ missed_tick_behavior = "Skip"
                /\ sleeper = DEFAULT_NATIVE_SLEEP_ACCURACY
           ELSE InitNoInterval
        /\ IF prog = "report"
           THEN /\ \E rp \in 0..MaxReportPeriod : report_period = rp
                /\ rr_start = 0
                /\ rate_count = 0
                /\ rr_ret = RrRet("new", FALSE, 0, 0)
                /\ rr_incs = 0
           ELSE InitNoReporter
        /\ IF prog \in LoopPrograms
           THEN /\ \E R \in Rates :
                    /\ TargetDeltaOf(R) >= 0
                    /\ target_delta = TargetDeltaOf(R)
                /\ report_interval = DefaultReportInterval
                /\ lh_sleeper = DEFAULT_NATIVE_SLEEP_ACCURACY
                /\ last_loop_start = 0 /\ last_report = 0
                /\ delta_sum = 0 /\ delta_count = 0
                /\ lh_ret = LhRet("build", 0, FALSE, 0, 0)
                /\ lh_hist = NewLoopHist(0)
           ELSE InitNoLoopHelper
    /\ InitNoWindows

RegressSleepCall == program = "sleep" /\ SleepCall
RegressTickCall == program = "tick" /\ TickCall
RegressIncrement == program = "report" /\ Increment
RegressReport == program = "report" /\ Report
RegressLoopStart ==
    program \in LoopPrograms /\ lh_hist.loops < MaxRegressLoops /\ LoopStart
RegressLoopSleep == program = "loop_sleep" /\ LoopSleepCall
RegressReportRate == program = "loop_report" /\ ReportRate

NextRegress ==
    \/ ClockAdvance
    \/ ClockRegress
    \/ RegressSleepCall
    \/ RegressTickCall
    \/ SleepStart
    \/ NativeSleepReturn
    \/ SpinIterate
    \/ SpinExit
    \/ TickResume
    \/ Return
    \/ RegressIncrement
    \/ RegressReport
    \/ RegressLoopStart
    \/ RegressLoopSleep
    \/ RegressReportRate

SpecRegress == InitRegress /\ [][NextRegress]_vars

\* ------------------------------------- Windows native sleep (windows.rs, lib.rs)
nonWinVars == <<now, pc, op, native_accuracy_ns, callVars, intervalVars, hist,
                reportVars, loopVars, regressVars>>

\* checked_dur2intervals: the whole timer intervals of a duration, the rest of the
\* division dropped; -1 is None, the count does not fit an i64.
Dur2Intervals(d) ==
    LET intervals == d \div INTERVAL_NANOS
    IN IF intervals > I64_MAX THEN -1 ELSE intervals

MinTimePeriodUncached(caps) == IF caps # 0 THEN caps ELSE 1
\* min_time_period(): the cell's value, initialised on first use from what
\* timeGetDevCaps reports (caps = 0: the call failed, the period is 1).
MinTimePeriod(caps) ==
    IF min_time_period # 0 THEN min_time_period
    ELSE IF caps # 0 THEN caps ELSE 1

\* This min_time_period() call runs the initialiser of the cell, whose
\* timeGetDevCaps call does not return TIMERR_NOERROR.
QueryFailed(caps) == min_time_period = 0 /\ caps = 0

\* The first use of the thread-local HIGH_RES_TIMER runs
\* WaitableTimer::try_high_resolution (CreateWaitableTimerExW succeeds or not);
\* later uses find the value of the first.
HighResTimer(tm, created) ==
    IF tm = "uninit" THEN (IF created THEN "ok" ELSE "err") ELSE tm

TimeBeginPeriod(p) == raised' = [raised EXCEPT ![p] = @ + 1]
TimeEndPeriod(p) == raised' = [raised EXCEPT ![p] = @ - 1]

EndPeriodArgDefault(w) == 1
\* The argument of timeEndPeriod: the period the call passed to timeBeginPeriod.
EndPeriodArg(w) == w.p

\* `timeBeginPeriod(min_time_period); std::thread::sleep(duration);` of thread t:
\* the thread blocks for the whole duration d, counted from this step. `s` is the
\* clock when the sleep call was entered, `e` why the high-resolution sleep failed.
FallbackBegin(t, tm, d, s, e, pth) ==
    \E caps \in 0..MaxMinPeriod :
        /\ min_time_period # 0 => caps = 0
        /\ LET p == MinTimePeriod(caps) IN
            /\ min_time_period' = p
            /\ TimeBeginPeriod(p)
            /\ win' = [win EXCEPT ![t] =
                          [pc |-> "fb_sleep", timer |-> tm, dur |-> d, start |-> s,
                           wake |-> now + d, p |-> p, path |-> pth, err |-> e,
                           begins |-> 1, slept |-> 0,
                           query_failed |-> QueryFailed(caps)]]

\* native_sleep(d) of windows.rs on thread t, up to the point where the thread
\* blocks: high_res_sleep initialises the thread's timer on first use
\* (CreateWaitableTimerExW may fail), converts the duration and sets the timer
\* (SetWaitableTimer may fail), then waits; any failure leads to the fallback.
WinNativeSleep(t) ==
    /\ pc = "idle"
    /\ win[t].pc = "idle"
    /\ \E d \in 0..MaxDuration, created \in BOOLEAN, setOk \in BOOLEAN :
        /\ now <= MaxStart
        /\ win[t].timer # "uninit" => created
        /\ LET tm == HighResTimer(win[t].timer, created)
               intervals == Dur2Intervals(d)
               e == IF tm = "err" THEN "create"
                    ELSE IF intervals < 0 THEN "convert"
                    ELSE IF ~setOk THEN "set" ELSE "none"
           IN /\ e \in {"create", "convert"} => setOk
              /\ IF e = "none"
                 THEN /\ win' = [win EXCEPT ![t] =
                                    [pc |-> "hr_wait", timer |-> tm, dur |-> d,
                                     start |-> now,
                                     wake |-> now + intervals * INTERVAL_NANOS,
                                     p |-> 0, path |-> "none", err |-> "none",
                                     begins |-> 0, slept |-> 0,
                                     query_failed |-> FALSE]]
                      /\ UNCHANGED <<min_time_period, raised>>
                 ELSE FallbackBegin(t, tm, d, now, e, "fallback")
    /\ UNCHANGED nonWinVars

\* WaitForSingleObject returns because the timer was signaled: high_res_sleep is
\* Ok and native_sleep returns.
WinWaitSignaled(t) ==
    /\ win[t].pc = "hr_wait"
    /\ now >= win[t].wake
    /\ win' = [win EXCEPT ![t].pc = "done", ![t].path = "high_res",
                          ![t].slept = now - win[t].start,
                          ![t].start = 0, ![t].wake = 0]
    /\ UNCHANGED <<min_time_period, raised, nonWinVars>>

\* WaitForSingleObject returns WAIT_FAILED: high_res_sleep is Err and
\* native_sleep falls back.
WinWaitFailed(t) ==
    /\ win[t].pc = "hr_wait"
    /\ now + win[t].dur <= MaxTime
    /\ FallbackBegin(t, win[t].timer, win[t].dur, win[t].start, "wait", "fallback")
    /\ UNCHANGED nonWinVars

\* sleep_accuracy() of windows.rs on thread t: the first use of the thread's
\* timer initialises it; with a usable timer the answer is the fixed accuracy of
\* the high-resolution sleep (p = 0 below), otherwise it is derived from
\* min_time_period(), which p records. The call does not block.
WinSleepAccuracy(t) ==
    /\ pc = "idle"
    /\ win[t].pc = "idle"
    /\ now <= MaxStart
    /\ \E created \in BOOLEAN, caps \in 0..MaxMinPeriod :
        /\ win[t].timer # "uninit" => created
        /\ LET tm == HighResTimer(win[t].timer, created)
               answer(p, q) == [WinIdle(tm) EXCEPT !.pc = "done", !.path = "accuracy",
                                                   !.p = p, !.query_failed = q]
           IN IF tm = "ok"
              THEN /\ caps = 0
                   /\ win' = [win EXCEPT ![t] = answer(0, FALSE)]
                   /\ UNCHANGED min_time_period
              ELSE /\ min_time_period # 0 => caps = 0
                   /\ min_time_period' = MinTimePeriod(caps)
                   /\ win' = [win EXCEPT ![t] =
                                  answer(MinTimePeriod(caps), QueryFailed(caps))]
    /\ UNCHANGED <<raised, nonWinVars>>

\* thread_sleep(d) of lib.rs on Windows, up to the point where the thread blocks.
WinThreadSleep(t) ==
    /\ pc = "idle"
    /\ win[t].pc = "idle"
    /\ \E d \in 0..MaxDuration :
        /\ now <= MaxStart
        /\ FallbackBegin(t, win[t].timer, d, now, "none", "thread_sleep")
    /\ UNCHANGED nonWinVars

\* std::thread::sleep returns and the call ends the period it began.
WinFallbackWake(t) ==
    /\ win[t].pc = "fb_sleep"
    /\ now >= win[t].wake
    /\ TimeEndPeriod(EndPeriodArg(win[t]))
    /\ win' = [win EXCEPT ![t].pc = "done",
                          ![t].slept = now - win[t].start,
                          ![t].start = 0, ![t].query_failed = FALSE, ![t].wake = 0]
    /\ UNCHANGED <<min_time_period, nonWinVars>>

\* The sleep call returns to its caller.
WinReturn(t) ==
    /\ win[t].pc = "done"
    /\ win' = [win EXCEPT ![t] = WinIdle(win[t].timer)]
    /\ UNCHANGED <<min_time_period, raised, nonWinVars>>

\* The threads of a process sleeping on Windows.
InitWindows == InitSleep

NextWindows ==
    \/ ClockAdvance
    \/ \E t \in Threads : WinNativeSleep(t)
    \/ \E t \in Threads : WinWaitSignaled(t)
    \/ \E t \in Threads : WinWaitFailed(t)
    \/ \E t \in Threads : WinThreadSleep(t)
    \/ \E t \in Threads : WinFallbackWake(t)
    \/ \E t \in Threads : WinReturn(t)

SpecWindows == InitWindows /\ [][NextWindows]_vars

\* The threads of a process using windows.rs alone: native_sleep and
\* sleep_accuracy, which share the thread's timer and the process's cell.
NextTimerInit ==
    \/ ClockAdvance
    \/ \E t \in Threads : WinNativeSleep(t)
    \/ \E t \in Threads : WinSleepAccuracy(t)
    \/ \E t \in Threads : WinWaitSignaled(t)
    \/ \E t \in Threads : WinWaitFailed(t)
    \/ \E t \in Threads : WinFallbackWake(t)
    \/ \E t \in Threads : WinReturn(t)

SpecTimerInit == InitWindows /\ [][NextTimerInit]_vars

\* ---------------------------------------------------- SpinSleeper: claims
SleepReturned == op = "sleep" /\ pc = "done"

\* C1: SpinSleeper::sleep(duration) never under-sleeps: when it returns, the clock
\* reads at least start + duration, start being the reading taken at the beginning
\* of the call, for every duration, every native accuracy and every over-sleep of
\* native sleep.
C1_NeverUnderSleeps ==
    SleepReturned => obs.sleepRetNow >= start + duration

\* A sleep that used native sleep, which over-slept past the deadline.
C1_Witness ==
    /\ SleepReturned
    /\ duration >= 2
    /\ obs.nativeCalls = 1
    /\ obs.sleepRetNow > start + duration

\* C2: native sleep is called if and only if duration > accuracy; then exactly
\* once, before any busy-wait iteration, with the strictly positive argument
\* duration - accuracy; when duration <= accuracy it is not called and the
\* busy-wait alone holds the caller until the deadline.
C2_NativeSleepIffLonger ==
    op = "sleep" =>
        /\ obs.nativeCalls <= 1
        /\ obs.nativeCalls = 1 =>
            /\ duration > accuracy
            /\ obs.nativeArg = duration - accuracy
            /\ obs.nativeArg > 0
            /\ obs.spinsBeforeNative = 0
        /\ pc \in {"spin", "done"} => (obs.nativeCalls = 1 <=> duration > accuracy)
        /\ (pc = "done" /\ duration <= accuracy) =>
            /\ obs.nativeCalls = 0
            /\ obs.sleepRetNow >= start + duration

\* Native sleep for part of the duration, then at least one busy-wait iteration.
C2_Witness ==
    /\ SleepReturned
    /\ accuracy > 0
    /\ obs.nativeCalls = 1
    /\ obs.nativeArg = duration - accuracy
    /\ obs.spins >= 1

\* C3 as stated: a sleeper with native accuracy 0 never calls native sleep.
C3_ZeroAccuracyNeverNative ==
    (op = "sleep" /\ accuracy = 0) => obs.nativeCalls = 0

\* C3, amended: a sleeper with native accuracy 0 hands the whole duration to
\* native sleep: for every duration > 0 native sleep is called exactly once with
\* the full duration, and it is skipped only when the duration is 0.
C3_ZeroAccuracyAllNative ==
    (op = "sleep" /\ accuracy = 0 /\ pc \in {"spin", "done"}) =>
        /\ obs.nativeCalls = (IF duration > 0 THEN 1 ELSE 0)
        /\ duration > 0 => obs.nativeArg = duration

\* A sleeper with accuracy 0 returned from a sleep it spent in native sleep.
C3_Witness ==
    /\ SleepReturned
    /\ native_accuracy_ns = 0
    /\ accuracy = 0
    /\ duration = MaxDuration
    /\ obs.nativeCalls = 1

\* C4: sleep with a duration of 0 returns at once for every native accuracy,
\* 0 included: native sleep is not called and the busy-wait body never runs.
C4_ZeroDurationImmediate ==
    (op = "sleep" /\ duration = 0) =>
        /\ pc # "native_wait"
        /\ obs.nativeCalls = 0
        /\ obs.spins = 0

\* A zero-length sleep returned under accuracy 0, the clock having moved meanwhile.
C4_Witness ==
    /\ SleepReturned
    /\ duration = 0
    /\ accuracy = 0
    /\ obs.sleepRetNow > start

\* ------------------------------------------------------- Interval: claims
\* A step in which tick() is called, and the state in which it has returned.
TickCalled == pc = "idle" /\ op' = "tick"
TickReturned == op = "tick" /\ pc = "done"

\* C5: tick() on time (the clock reading now <= next_tick): the sleeper is called
\* once with exactly next_tick - now, next_tick stays as it is while the call
\* sleeps and then becomes the old next_tick + period, and the old next_tick is
\* returned, under every missed-tick behavior.
C5_OnTimeTick ==
    [][ /\ (TickCalled /\ now <= next_tick) =>
            /\ pc' = "sleep_start"
            /\ obs'.branch = "ontime"
            /\ obs'.sleepCalls = 1
            /\ duration' = next_tick - now
            /\ accuracy' = sleeper
            /\ next_tick' = next_tick
        /\ (op = "tick" /\ obs.branch = "ontime" /\ pc \notin {"tick_resume", "done"}) =>
            next_tick' = next_tick
        /\ (op = "tick" /\ obs.branch = "ontime" /\ pc # "done" /\ pc' = "done") =>
            /\ pc = "tick_resume"
            /\ next_tick' = next_tick + period
            /\ ret' = next_tick
      ]_vars

\* An on-time tick under Delay that slept a positive time and returned the old
\* next_tick.
C5_Witness ==
    /\ TickReturned
    /\ obs.branch = "ontime"
    /\ missed_tick_behavior = "Delay"
    /\ duration > 0
    /\ duration = tick - tnow
    /\ ret = tick
    /\ next_tick = tick + period

\* C6: tick() missed (the clock reading now > next_tick): the sleeper is not
\* called, the call returns in that step with the old next_tick (which is not
\* now), and next_tick becomes what the configured behavior computes.
C6_MissedTick ==
    [][ (TickCalled /\ now > next_tick) =>
            /\ pc' = "done"
            /\ obs'.branch = "missed"
            /\ obs'.sleepCalls = 0
            /\ obs'.nativeCalls = 0
            /\ obs'.spins = 0
            /\ ret' = next_tick
            /\ ret' < now
            /\ obs'.retNow = now
            /\ missed_tick_behavior = "Burst" => next_tick' = next_tick + period
            /\ missed_tick_behavior = "Delay" => next_tick' = now + period
            /\ missed_tick_behavior = "Skip" =>
                next_tick' = now + period - ((now - next_tick) % period)
      ]_vars

\* A missed tick under Skip, more than a period late.
C6_Witness ==
    /\ TickReturned
    /\ obs.branch = "missed"
    /\ missed_tick_behavior = "Skip"
    /\ tnow > tick + period
    /\ ret = tick
    /\ next_tick > tnow

\* C7: Skip, called late by k*P + r (0 <= r < P, lateness > 0) past `missed`:
\* next_tick becomes now + P - r = missed + (k+1)*P, the only instant of
\* (now, now + P] that is a whole number of periods from `missed`, P - r after
\* the late call.
C7_SkipPhaseAligned ==
    [][ (TickCalled /\ now > next_tick /\ missed_tick_behavior = "Skip") =>
            LET lateness == now - next_tick
                k == lateness \div period
                r == lateness % period
            IN
            /\ next_tick' = now + period - r
            /\ next_tick' = next_tick + (k + 1) * period
            /\ next_tick' - now = period - r
            /\ \A x \in (now + 1)..(now + period) :
                ((x - next_tick) % period = 0) <=> (x = next_tick')
      ]_vars

\* A Skip tick that was late by more than one period and a remainder: whole ticks
\* were dropped and the next tick is less than a period away.
C7_Witness ==
    /\ TickReturned
    /\ obs.branch = "missed"
    /\ missed_tick_behavior = "Skip"
    /\ (tnow - tick) \div period >= 1
    /\ (tnow - tick) % period > 0
    /\ next_tick = tick + ((tnow - tick) \div period + 1) * period
    /\ next_tick - tnow < period

\* C8: Burst with no reset: the n-th call of tick() returns start + (n-1)*period,
\* whatever the delays between the calls, and next_tick is start + n*period
\* after it.
C8_BurstKeepsSchedule ==
    (TickReturned /\ hist.burstCalls >= 1) =>
        /\ ret = hist.start + (hist.burstCalls - 1) * period
        /\ next_tick = hist.start + hist.burstCalls * period

\* The third or a later tick of a Burst interval, missed by more than a period.
C8_Witness ==
    /\ TickReturned
    /\ hist.burstCalls >= 3
    /\ obs.branch = "missed"
    /\ tnow > tick + period
    /\ ret = hist.start + (hist.burstCalls - 1) * period

\* C9: Burst catch-up.  A tick() call finds the clock exactly N >= 1 periods
\* past next_tick and returns at once (missed); the clock not moving between
\* the calls, exactly the N tick() calls after it return without any sleep (the
\* first N-1 as missed ticks, the N-th on time with a sleep of length 0: no
\* native sleep, no busy-wait iteration), and the call after them sleeps for a
\* whole period.
C9_BurstCatchUp ==
    LET ep == hist.episode IN
    (op = "tick" /\ ep.n > 0) =>
        /\ missed_tick_behavior = "Burst"
        /\ ep.k <= ep.n + 1
        /\ ep.k < ep.n => obs.branch = "missed"
        /\ ep.k = ep.n => (obs.branch = "ontime" /\ duration = 0)
        /\ ep.k <= ep.n =>
            /\ pc # "native_wait"
            /\ obs.nativeCalls = 0
            /\ obs.spins = 0
        /\ ep.k = ep.n + 1 =>
            /\ obs.branch = "ontime"
            /\ duration = period
            /\ tick = ep.at + period

\* Two periods behind: the late call and two more returned at once, and the call
\* after them has slept a whole period.
C9_Witness ==
    /\ TickReturned
    /\ hist.episode.n >= 2
    /\ hist.episode.k = hist.episode.n + 1
    /\ obs.sleepRetNow >= hist.episode.at + period

\* C10: Delay: a missed tick found at clock reading now sets next_tick to
\* now + period; from then on (until a reset) every tick is scheduled a whole
\* number >= 1 of periods after that late call, and no later tick() returns
\* before a full period has passed since it.
C10_DelayShiftsPhase ==
    /\ (TickReturned /\ obs.branch = "missed" /\ missed_tick_behavior = "Delay") =>
        /\ hist.delayAt = tnow
        /\ next_tick = tnow + period
    /\ hist.delayAt >= 0 =>
        /\ next_tick >= hist.delayAt + period
        /\ (next_tick - hist.delayAt) % period = 0
        /\ (TickReturned /\ ~(obs.branch = "missed" /\ tnow = hist.delayAt)) =>
            /\ ret >= hist.delayAt + period
            /\ (ret - hist.delayAt) % period = 0
            /\ obs.retNow >= hist.delayAt + period

\* After a tick missed under Delay, a later tick has returned; the schedule is no
\* longer a whole number of periods from start.
C10_Witness ==
    /\ TickReturned
    /\ missed_tick_behavior = "Delay"
    /\ hist.delayAt >= 0
    /\ obs.branch = "ontime"
    /\ ret = hist.delayAt + period
    /\ (ret - hist.start) % period # 0

\* C11: phase invariant.  While the Interval has not been reset and no missed
\* tick has been resolved by Delay (so in particular when only Skip and Burst are
\* used), next_tick and every instant returned by tick() are a whole number of
\* periods after start, whatever the delays between the calls.
C11_PhaseInvariant ==
    hist.anchored =>
        /\ next_tick >= hist.start
        /\ (next_tick - hist.start) % period = 0
        /\ TickReturned =>
            /\ ret >= hist.start
            /\ (ret - hist.start) % period = 0

\* A tick, not the first, missed under Skip by more than a period and not by a
\* whole number of periods, on an Interval that started later than clock 0.
C11_Witness ==
    /\ TickReturned
    /\ hist.anchored
    /\ obs.branch = "missed"
    /\ missed_tick_behavior = "Skip"
    /\ hist.start > 0
    /\ ret > hist.start
    /\ period >= 2
    /\ tnow - ret > period
    /\ (tnow - ret) % period # 0
    /\ next_tick > tnow

\* A step that is a call of Interval::reset().
ResetStep == now' = now /\ hist'.resetAt = now /\ hist.resetAt # now

\* C14: reset() sets next_tick to now + period for the now of the call, whatever
\* next_tick was (so any earlier phase and any backlog of missed ticks is gone),
\* and leaves period, missed-tick policy and sleeper unchanged; the next tick(),
\* if called before now + period, takes the on-time branch, sleeps until that
\* instant and returns it.
C14_Reset ==
    [][ /\ ResetStep =>
            /\ next_tick' = now + period
            /\ UNCHANGED <<period, missed_tick_behavior, sleeper>>
        /\ (hist.resetAt >= 0 /\ hist'.resetAt >= 0) =>
            /\ hist'.resetAt + period' <= next_tick'
            /\ next_tick' <= now' + period'
        /\ (op' = "tick" /\ pc' = "done" /\ obs'.afterReset >= 0
                /\ tnow' < obs'.afterReset + period') =>
            /\ obs'.branch = "ontime"
            /\ obs'.sleepCalls = 1
            /\ ret' = obs'.afterReset + period'
            /\ duration' = ret' - tnow'
            /\ obs'.retNow >= ret'
      ]_vars

\* The first tick() after a reset() made at clock 2 or later, called after the
\* reset and before the instant the reset scheduled, has returned that instant.
C14_Witness ==
    /\ TickReturned
    /\ obs.afterReset >= 2
    /\ tnow > obs.afterReset
    /\ tnow < obs.afterReset + period
    /\ ret = obs.afterReset + period
    /\ obs.branch = "ontime"
    /\ (ret - hist.start) % period # 0

\* C15: an on-time tick() never returns before the instant it returns: the clock
\* at its return is >= the returned instant; a missed tick returns an instant
\* that is already in the past.
C15_TickNotEarly ==
    TickReturned =>
        /\ obs.branch \in {"ontime", "missed"}
        /\ obs.branch = "ontime" => obs.retNow >= ret
        /\ obs.branch = "missed" => ret < obs.retNow
        /\ now = obs.retNow

\* An on-time tick() that waited in the busy-wait only and returned at the very
\* instant it returns.
C15_Witness ==
    /\ TickReturned
    /\ obs.branch = "ontime"
    /\ duration > 0
    /\ obs.nativeCalls = 0
    /\ obs.retNow = ret

\* An Interval has been produced.
IntervalBuilt == pc \notin {"unbuilt", "panicked"}

\* C12: interval / interval_at reject a zero period at construction: every
\* Interval that is produced has period > 0, a panic happens only in the
\* construction call and produces no Interval, and no panic is left for tick().
C12_ZeroPeriodRejected ==
    /\ IntervalBuilt => (period > 0 /\ hist.builtAt >= 0)
    /\ pc = "panicked" =>
        /\ hist.builtAt = -1
        /\ ~hist.ticked
        /\ op = "none"
        /\ period = 0 /\ next_tick = 0

\* The construction call has panicked.
C12_Witness ==
    /\ pc = "panicked"
    /\ now > 0

\* C13: the first tick() after construction returns `start`.  When the clock of
\* the call has reached start (as for interval(period), whose start is the
\* construction time) it does not wait: it is an on-time tick with a zero sleep
\* when the clock reads start, and a missed tick, resolved by the configured
\* policy, when the clock is past start.  When start is in the future it sleeps
\* until start.
C13_FirstTick ==
    (TickReturned /\ obs.first /\ obs.afterReset = -1) =>
        /\ ret = hist.start
        /\ tnow >= hist.builtAt
        /\ tnow = hist.start =>
            /\ obs.branch = "ontime"
            /\ duration = 0
            /\ obs.nativeCalls = 0 /\ obs.spins = 0
            /\ next_tick = hist.start + period
        /\ tnow > hist.start =>
            /\ obs.branch = "missed"
            /\ obs.sleepCalls = 0
            /\ obs.retNow = tnow
            /\ next_tick = MissedNextTick(missed_tick_behavior, hist.start, tnow, period)
        /\ tnow < hist.start =>
            /\ obs.branch = "ontime"
            /\ duration = hist.start - tnow
            /\ obs.retNow >= hist.start
            /\ next_tick = hist.start + period

\* The first tick() of an interval(period), built after clock 0 and called
\* at once, has returned its start with a zero sleep.
C13_Witness ==
    /\ TickReturned
    /\ obs.first
    /\ hist.builtAt > 0
    /\ hist.start = hist.builtAt
    /\ tnow = hist.start
    /\ ret = hist.start
    /\ duration = 0

\* --------------------------------------------------- RateReporter: claims
\* A step that is a call of the RateReporter operation o (each call reads the
\* clock at most once and the clock does not move within it).
RrStep(o) == rr_ret'.op = o /\ now' = now

\* C16: increment() adds exactly 1 to the count, saturating at the counter's
\* maximum: at the maximum it leaves the count as it is, it never wraps to 0, and
\* it changes neither the window start nor the report period.
C16_IncrementSaturates ==
    [][ RrStep("increment") =>
            /\ rate_count' = (IF rate_count < MaxCount THEN rate_count + 1 ELSE MaxCount)
            /\ rate_count' >= rate_count
            /\ rate_count' > 0
            /\ rr_start' = rr_start
            /\ report_period' = report_period
      ]_vars

\* An increment() made when the count already was at its maximum.
C16_Witness ==
    /\ rr_ret.op = "increment"
    /\ rate_count = MaxCount
    /\ rr_incs > MaxCount

\* C17: report(): with now - start < report_period it returns None and changes
\* neither count nor start; otherwise, elapsed = report_period included, it
\* returns count / (now - start) and sets count to 0 and start to that now.
C17_Report ==
    [][ RrStep("report") =>
            LET elapsed == now - rr_start IN
            IF elapsed < report_period
            THEN /\ ~rr_ret'.some
                 /\ rate_count' = rate_count
                 /\ rr_start' = rr_start
            ELSE /\ rr_ret'.some
                 /\ rr_ret'.count = rate_count
                 /\ rr_ret'.elapsed = elapsed
                 /\ rate_count' = 0
                 /\ rr_start' = now
      ]_vars

\* A report emitted exactly one report period after the window started.
C17_Witness ==
    /\ rr_ret.op = "report"
    /\ rr_ret.some
    /\ report_period > 0
    /\ rr_ret.elapsed = report_period
    /\ rr_ret.count >= 2
    /\ rate_count = 0
    /\ rr_start = now

\* C18: the count decreases only in a step that sets it to 0 and the window start
\* to the current time, which is an emitted report, a reset() or a construction;
\* the window start moves only together with the count becoming 0; a report that
\* returns None keeps the window, and reset() returns no reading, zeroes the count
\* and restarts the window at now.
C18_WindowInvariant ==
    [][ /\ rate_count' < rate_count =>
            /\ rate_count' = 0
            /\ rr_start' = now
            /\ rr_ret'.some \/ rr_ret'.op \in {"reset", "new"}
        /\ rr_start' # rr_start => (rate_count' = 0 /\ rr_start' = now)
        /\ ((RrStep("report") \/ RrStep("increment_and_report")) /\ ~rr_ret'.some) =>
            /\ rate_count' >= rate_count
            /\ rr_start' = rr_start
        /\ RrStep("reset") =>
            /\ ~rr_ret'.some
            /\ rate_count' = 0
            /\ rr_start' = now
      ]_vars

\* A reset() made in the middle of a window that was not yet due.
C18_Witness ==
    /\ rr_ret.op = "reset"
    /\ rate_count = 0
    /\ rr_start = now
    /\ now >= 2
    /\ report_period > 0

\* C19 as stated: after exactly k increments in a window that has lasted
\* T >= report_period, the report is k / T, for every k.
C19_ReportsAllIncrements ==
    [][ ((RrStep("report") \/ RrStep("increment_and_report")) /\ rr_ret'.some) =>
            /\ rr_ret'.count = rr_incs + (IF rr_ret'.op = "report" THEN 0 ELSE 1)
            /\ rr_ret'.elapsed = now - rr_start
      ]_vars

\* C19, amended: after exactly k increments in a window that has lasted
\* T >= report_period, the report is min(k, counter maximum) / T, that is k / T
\* as long as k does not exceed the counter's maximum (2^32 - 1); reports that
\* returned None in between neither lose nor double-count increments.
C19_ReportsSaturatedIncrements ==
    [][ /\ ((RrStep("report") \/ RrStep("increment_and_report")) /\ rr_ret'.some) =>
            LET k == rr_incs + (IF rr_ret'.op = "report" THEN 0 ELSE 1) IN
            /\ now - rr_start >= report_period
            /\ rr_ret'.count = Min(k, MaxCount)
            /\ k <= MaxCount => rr_ret'.count = k
            /\ rr_ret'.elapsed = now - rr_start
        /\ rate_count' = Min(rr_incs', MaxCount)
      ]_vars

\* A report of several increments, emitted after the window was due.
C19_Witness ==
    /\ rr_ret.op = "report"
    /\ rr_ret.some
    /\ rr_ret.count = 3
    /\ report_period > 0
    /\ rr_ret.elapsed > report_period

\* ----------------------------------------------------- LoopHelper: claims
\* A step that is a call of the LoopHelper operation o.
LhStep(o) == lh_ret'.op = o /\ now' = now

\* C20: loop_start() returns delta = now - last_loop_start for the one clock
\* reading now, sets last_loop_start to now, adds delta to delta_sum and adds 1
\* (as a 32-bit wrapping addition) to delta_count; it leaves target_delta,
\* report_interval, sleeper and last_report unchanged, and the first call returns
\* the time since the helper was built.
C20_LoopStart ==
    [][ LhStep("loop_start") =>
            /\ lh_ret'.delta = now - last_loop_start
            /\ last_loop_start' = now
            /\ delta_sum' = delta_sum + lh_ret'.delta
            /\ delta_count' = (delta_count + 1) % (MaxCount + 1)
            /\ UNCHANGED <<target_delta, report_interval, lh_sleeper, last_report>>
            /\ ~lh_hist.started => lh_ret'.delta = now - lh_hist.builtAt
      ]_vars

\* A loop_start() that is not the first, after a loop of 2 or more clock units.
C20_Witness ==
    /\ lh_ret.op = "loop_start"
    /\ lh_ret.delta >= 2
    /\ delta_count >= 2
    /\ delta_sum > lh_ret.delta
    /\ last_loop_start = now
    /\ lh_hist.builtAt > 0

\* The fields of the LoopHelper.
helperFields == <<target_delta, report_interval, lh_sleeper, last_loop_start, last_report,
                  delta_sum, delta_count>>
LoopSleepReturned == op = "loop_sleep" /\ pc = "done"

\* C21: loop_sleep(), with elapsed = now - last_loop_start read at the call, calls
\* the sleeper once with exactly target_delta - elapsed when elapsed <
\* target_delta and returns at once without sleeping otherwise, whatever the
\* earlier iterations did; it changes no field of the helper; when it returns the
\* clock is at least last_loop_start + target_delta; and the loop_start() that
\* follows a loop_sleep() returns a delta >= target_delta.
C21_LoopSleep ==
    [][ /\ (pc = "idle" /\ op' = "loop_sleep") =>
            LET elapsed == now - last_loop_start IN
            IF elapsed < target_delta
            THEN /\ pc' = "sleep_start"
                 /\ duration' = target_delta - elapsed
                 /\ accuracy' = lh_sleeper
                 /\ obs'.sleepCalls = 1
            ELSE /\ pc' = "done"
                 /\ now' = now
                 /\ obs'.sleepCalls = 0 /\ obs'.nativeCalls = 0
        /\ (op = "loop_sleep" \/ op' = "loop_sleep") => UNCHANGED helperFields
        /\ (op' = "loop_sleep" /\ pc' = "done") =>
            /\ now' >= last_loop_start' + target_delta'
            /\ obs'.retNow = now'
            /\ obs'.sleepCalls <= 1
        /\ (LhStep("loop_start") /\ lh_hist.slept) => lh_ret'.delta >= target_delta
      ]_vars

\* A loop_sleep() called one unit into an iteration with a target delta of two
\* or more has slept the rest in the busy-wait and returned on time.
C21_Witness ==
    /\ LoopSleepReturned
    /\ lh_hist.started
    /\ obs.sleepCalls = 1
    /\ tnow = last_loop_start + 1
    /\ duration = target_delta - 1
    /\ duration >= 1
    /\ now = last_loop_start + target_delta
    /\ delta_count >= 2

\* C22: a LoopHelper built without a target rate has target_delta = 0, and on a
\* helper with target_delta = 0 every loop_sleep() is a no-op: it returns at once,
\* calls neither the sleeper nor native sleep, and no duration it computes is
\* negative or infinite (no call fails).
C22_UnthrottledNoOp ==
    /\ (lh_ret.op = "build" /\ lh_ret.rate = INFINITY) => (pc = "idle" /\ target_delta = 0)
    /\ (op = "loop_sleep" /\ target_delta = 0) =>
        /\ pc = "done"
        /\ obs.branch = "nosleep"
        /\ obs.sleepCalls = 0 /\ obs.nativeCalls = 0 /\ obs.spins = 0
        /\ obs.retNow = tnow
        /\ duration = 0
    /\ op = "loop_sleep" => (duration >= 0 /\ duration <= target_delta)
    /\ pc = "panicked" => lh_ret.op = "build"

\* A loop_sleep() of a helper built without a target rate has returned, later
\* than the loop_start() before it.
C22_Witness ==
    /\ LoopSleepReturned
    /\ target_delta = 0
    /\ lh_hist.started
    /\ tnow > last_loop_start
    /\ last_loop_start > lh_hist.builtAt

\* C23 as stated: report_rate() returns None exactly when less than one
\* report_interval has elapsed since the last report or no loop_start() happened
\* in the window, and a rate in every other case, elapsed = report_interval with
\* delta_count > 0 included.
C23_ReportRateWindowRule ==
    [][ LhStep("report_rate") =>
            (lh_ret'.some <=> ~(now - last_report < report_interval \/ delta_count = 0))
      ]_vars

Abs(x) == IF x < 0 THEN -x ELSE x
\* The target delta td is 1 / R rounded to the clock's unit.
IsRounded(td, R) == 2 * Abs(td * R - RateUnit) <= R

\* C25: target rate round trip.  Building with target rate R or calling
\* set_target_rate(R) sets target_delta to 1 / R rounded to the clock's unit
\* (exactly 1 / R when that is a whole number of units, 0 for an infinite R);
\* target_rate() returns 1 / target_delta, which is R up to that rounding, and
\* changes nothing; set_target_rate changes target_delta only.
C25_TargetRateRoundTrip ==
    [][ /\ (lh_ret'.op \in {"build", "set_target_rate"} /\ pc' = "idle") =>
            LET R == lh_ret'.rate IN
            /\ R = INFINITY => target_delta' = 0
            /\ R # INFINITY =>
                /\ R \in 1..MaxRate
                /\ IsRounded(target_delta', R)
                /\ RateUnit % R = 0 => target_delta' * R = RateUnit
        /\ LhStep("set_target_rate") =>
            UNCHANGED <<report_interval, lh_sleeper, last_loop_start, last_report,
                        delta_sum, delta_count>>
        /\ LhStep("target_rate") =>
            /\ UNCHANGED helperFields
            /\ lh_ret'.count = RateUnit /\ lh_ret'.sum = target_delta
            /\ (lh_ret.op \in {"build", "set_target_rate"} /\ lh_ret.rate # INFINITY) =>
                    IsRounded(lh_ret'.sum, lh_ret.rate)
            /\ (lh_ret.op \in {"build", "set_target_rate"} /\ lh_ret.rate = INFINITY) =>
                    lh_ret'.sum = 0
      ]_vars

\* set_target_rate(R) with an R whose 1 / R is no whole number of units, on a
\* helper that has accumulated loops.
C25_Witness ==
    /\ pc = "idle"
    /\ lh_ret.op = "set_target_rate"
    /\ lh_ret.rate \in 1..MaxRate
    /\ RateUnit % lh_ret.rate # 0
    /\ target_delta > 0
    /\ delta_count >= 2
    /\ delta_sum >= 2

\* C26: a target rate of 0 is rejected at the call: build_with_target_rate(0)
\* and set_target_rate(0) panic, no LoopHelper is produced by the build, a failed
\* set_target_rate leaves target_delta and every other field as it was, and the
\* target_delta of a LoopHelper is always a finite duration >= 0.
C26_ZeroRateRejected ==
    [][ /\ (lh_ret'.op \in {"build", "set_target_rate"} /\ lh_ret'.rate = 0
                /\ pc \in {"unbuilt", "idle"} /\ now' = now) =>
            /\ pc' = "panicked"
            /\ UNCHANGED helperFields
            /\ UNCHANGED lh_hist
        /\ pc' = "idle" => target_delta' \in 0..RateUnit
        /\ pc' = "panicked" =>
            /\ lh_ret'.rate = 0
            /\ lh_ret'.op = "build" => (lh_hist' = NewLoopHist(0) /\ target_delta' = 0)
      ]_vars

\* set_target_rate(0) has panicked on a helper that had a target delta and loops.
C26_Witness ==
    /\ pc = "panicked"
    /\ lh_ret.op = "set_target_rate"
    /\ lh_ret.rate = 0
    /\ target_delta > 0
    /\ delta_count > 0

\* C27: unit normalisation.  sleep_ns(n) is sleep of the Duration of n div 10^9
\* seconds and n mod 10^9 nanoseconds, whose sub-second part is below a second and
\* whose total is n, and it returns no earlier than n after its start; sleep_s(s)
\* is sleep of s seconds, rounded to the Duration's unit, for s > 0, and returns
\* at once, without sleeping or failing, for s <= 0.
C27_UnitNormalisation ==
    [][ /\ (pc = "idle" /\ op' = "sleep_ns") =>
            LET n == obs'.arg IN
            /\ pc' = "sleep_start"
            /\ obs'.secs = n \div NANOS_PER_SEC
            /\ obs'.subsec_ns = n % NANOS_PER_SEC
            /\ obs'.subsec_ns < NANOS_PER_SEC
            /\ obs'.secs * NANOS_PER_SEC + obs'.subsec_ns = n
            /\ duration' = n
            /\ accuracy' = native_accuracy_ns
        /\ (pc = "idle" /\ op' = "sleep_s") =>
            LET h == obs'.arg IN
            IF h > 0
            THEN /\ pc' = "sleep_start"
                 /\ Abs(2 * duration' - h) <= 1
                 /\ accuracy' = native_accuracy_ns
            ELSE /\ pc' = "done"
                 /\ now' = now
                 /\ obs'.nativeCalls = 0 /\ obs'.spins = 0
        /\ (op' \in {"sleep_ns", "sleep_s"} /\ pc' = "done") =>
            /\ obs'.arg > 0 => obs'.retNow >= start' + duration'
            /\ op' = "sleep_ns" => obs'.retNow >= start' + obs'.arg
            /\ obs'.nativeCalls = (IF duration' > accuracy' THEN 1 ELSE 0)
            /\ obs'.nativeCalls = 1 => obs'.nativeArg = duration' - accuracy'
      ]_vars

\* sleep_ns(n) of more than a second, with a non-zero sub-second part, has
\* slept natively and returned.
C27_Witness ==
    /\ op = "sleep_ns"
    /\ pc = "done"
    /\ obs.arg > NANOS_PER_SEC
    /\ obs.secs >= 1
    /\ obs.subsec_ns >= 1
    /\ duration = obs.arg
    /\ obs.nativeCalls = 1
    /\ obs.retNow = start + duration


\* -------------------------------------------------- Windows native sleep: claims
\* C28: native_sleep of windows.rs never surfaces an error. A call that returned
\* after the high-resolution wait succeeded made no timeBeginPeriod call, a call
\* whose high-resolution sleep failed (timer not created, duration not
\* convertible, set failed, wait failed) completed by the fallback with one
\* timeBeginPeriod call, and in every case at least the requested duration had
\* elapsed when the call returned.
C28_NativeSleepFallback ==
    \A t \in Threads :
        (win[t].pc = "done" /\ win[t].path \notin {"thread_sleep", "accuracy"}) =>
            /\ win[t].path \in {"high_res", "fallback"}
            /\ win[t].path = "high_res" => (win[t].err = "none" /\ win[t].begins = 0)
            /\ win[t].path = "fallback" => (win[t].err # "none" /\ win[t].begins = 1)
            /\ win[t].slept >= win[t].dur

\* The threads that have begun period p and not ended it.
WinActive(p) == {t \in Threads : win[t].pc = "fb_sleep" /\ win[t].p = p}

\* C29: the raised timer resolution is always released. For every period p the
\* timeBeginPeriod(p) requests outstanding are exactly those of the threads
\* blocked in their fallback sleep, which all began the process-wide minimum
\* period; so each begin is ended once with the same p, whatever the number of
\* threads sleeping, and nothing is outstanding when no sleep call is in progress.
C29_PeriodReleased ==
    /\ \A p \in 1..MaxMinPeriod : raised[p] = Cardinality(WinActive(p))
    /\ \A t \in Threads : win[t].pc = "fb_sleep" => win[t].p = min_time_period
    /\ (\A t \in Threads : win[t].pc \in {"idle", "done"}) =>
           \A p \in 1..MaxMinPeriod : raised[p] = 0

\* One thread has ended the largest period while another thread still holds it.
C29_Witness ==
    \E t, u \in Threads :
        /\ t # u
        /\ win[t].pc = "done" /\ win[t].begins = 1 /\ win[t].p = MaxMinPeriod
        /\ win[u].pc = "fb_sleep" /\ win[u].p = MaxMinPeriod
        /\ raised[MaxMinPeriod] = 1


\* ------------------------------------------------------- Termination: claims
\* A sleep() or tick() call is in progress.
InCall == pc \in {"sleep_start", "native_wait", "spin", "tick_resume"}

\* The call's deadline start + duration lies beyond the last clock value of the
\* model, where the clock no longer advances.
BeyondHorizon == pc \in {"native_wait", "spin"} /\ start + duration > MaxTime

\* C30: sleep(duration) and tick() run to completion. While the clock keeps
\* advancing and native sleep returns, a call in progress is left only by
\* returning (no step cancels it), and every call in progress eventually returns
\* (unless its deadline lies beyond the last clock value of the model).
C30_Termination ==
    /\ [][InCall => (InCall' \/ pc' = "done")]_vars
    /\ InCall ~> (pc = "done" \/ BeyondHorizon)

\* A tick() that slept natively, busy-waited and returned at the last clock value.
C30_Witness ==
    /\ pc = "done" /\ op = "tick"
    /\ obs.nativeCalls = 1 /\ obs.spins >= 1
    /\ obs.retNow = MaxTime

\* ------------------------------------------- LoopHelper: the 32-bit counter
\* C31: delta_count wraps modulo 2^32 instead of failing. loop_start() never
\* panics and takes the counter from its largest value to 0; after 2^32
\* loop_start() calls without an emitted report delta_count is 0 again while
\* delta_sum holds the whole time accumulated by those calls, and a report_rate()
\* called then returns None and changes nothing.
C31_DeltaCountWraps ==
    [][ /\ LhStep("loop_start") =>
            /\ pc' = "idle"
            /\ delta_count' = IF delta_count = MaxCount THEN 0 ELSE delta_count + 1
            /\ delta_sum' = delta_sum + lh_ret'.delta
        /\ lh_hist'.loops = MaxCount + 1 =>
            /\ delta_count' = 0
            /\ delta_sum' = lh_hist'.sum
        /\ (LhStep("report_rate") /\ lh_hist.loops = MaxCount + 1) =>
            /\ ~lh_ret'.some
            /\ UNCHANGED helperFields
      ]_vars

\* After 2^32 loops that took time, report_rate() was called more than a report
\* interval after the last report and returned None.
C31_Witness ==
    /\ lh_ret.op = "report_rate"
    /\ ~lh_ret.some
    /\ lh_hist.loops = MaxCount + 1
    /\ delta_count = 0
    /\ delta_sum > 0
    /\ now - last_report > report_interval

\* ------------------------------------------- Interval: the Skip computation
\* A tick() under Skip found its tick missed and has returned or panicked.
SkipMissed == op = "tick" /\ obs.branch = "missed" /\ missed_tick_behavior = "Skip"
\* The lateness of that call and its remainder modulo the period.
SkipLateness == tnow - tick
SkipRem == SkipLateness % period

\* C32: the Skip computation panics only when (now - missed) mod period does not
\* fit in 64 bits, for which both the period and the lateness exceed what a u64
\* of nanoseconds holds; with a period below that bound a missed tick under Skip
\* never fails; and a remainder that does not fit is a panic, not a saturated
\* result.
C32_SkipPanicsOnlyOnRemainder ==
    SkipMissed =>
        /\ pc = "panicked" <=> SkipRem > U64_MAX
        /\ pc = "panicked" => (period > U64_MAX /\ SkipLateness > U64_MAX)
        /\ period <= U64_MAX => pc = "done"

\* C32, amended: the Skip computation panics exactly when the remainder does not
\* fit in 64 bits or when now + period is later than any Instant; the first needs
\* both the period and the lateness to exceed what a u64 of nanoseconds holds;
\* with a period below that bound and now + period an Instant the call returns
\* with next_tick = now + period - remainder.
C32_SkipPanics ==
    SkipMissed =>
        /\ pc \in {"done", "panicked"}
        /\ pc = "panicked" <=> (SkipRem > U64_MAX \/ tnow + period > INSTANT_MAX)
        /\ SkipRem > U64_MAX => (period > U64_MAX /\ SkipLateness > U64_MAX)
        /\ (period <= U64_MAX + 1 /\ tnow + period <= INSTANT_MAX) =>
               (pc = "done" /\ next_tick = tnow + period - SkipRem)
        /\ pc = "panicked" => next_tick = tick

\* A missed tick under Skip panicked on the conversion alone: now + period is an
\* Instant, and the remainder is more than a u64 holds.
C32_Witness ==
    /\ SkipMissed
    /\ pc = "panicked"
    /\ SkipRem > U64_MAX
    /\ tnow + period <= INSTANT_MAX

\* ------------------------------------------- A clock that regresses: claims
\* C33: no duration computation underflows when the clock regresses below a
\* recorded instant. No call panics; the busy-wait of sleep() goes on while the
\* clock is below its start (the elapsed time is 0) and ends only with the
\* duration elapsed; report(), loop_start(), loop_sleep() and report_rate() use
\* an elapsed time of 0 when the clock is below start, last_loop_start or
\* last_report, and the exact difference otherwise; and tick() subtracts now
\* from next_tick only when now <= next_tick, and the missed tick from now only
\* when now > missed.
C33_NoUnderflow ==
    [][ /\ pc' # "panicked"
        /\ duration' >= 0 /\ delta_sum' >= 0
        /\ (pc = "spin" /\ now < start /\ duration > 0) => pc' = "spin"
        /\ (pc = "spin" /\ pc' # "spin") => (duration = 0 \/ now - start >= duration)
        /\ (program = "report" /\ RrStep("report")) =>
            LET elapsed == IF now < rr_start THEN 0 ELSE now - rr_start IN
            /\ rr_ret'.some <=> elapsed >= report_period
            /\ rr_ret'.some => rr_ret'.elapsed = elapsed
        /\ LhStep("loop_start") =>
            LET delta == IF now < last_loop_start THEN 0 ELSE now - last_loop_start IN
            /\ lh_ret'.delta = delta
            /\ delta_sum' = delta_sum + delta
            /\ last_loop_start' = now
        /\ (pc = "idle" /\ op' = "loop_sleep") =>
            LET elapsed == IF now < last_loop_start THEN 0 ELSE now - last_loop_start IN
            IF elapsed < target_delta
            THEN pc' = "sleep_start" /\ duration' = target_delta - elapsed
            ELSE pc' = "done"
        /\ (LhStep("report_rate") /\ now <= last_report) => ~lh_ret'.some
        /\ (pc = "idle" /\ op' = "tick") =>
            IF now <= next_tick
            THEN /\ pc' = "sleep_start"
                 /\ duration' = next_tick - now
            ELSE /\ pc' = "done"
                 /\ ret' = next_tick
                 /\ next_tick' = now + period - ((now - next_tick) % period)
      ]_vars

\* loop_sleep() was called with the clock below last_loop_start and sleeps the
\* whole target delta.
C33_Witness ==
    /\ op = "loop_sleep"
    /\ pc = "sleep_start"
    /\ regressions >= 1
    /\ tnow < last_loop_start
    /\ target_delta > 0
    /\ duration = target_delta

\* ------------------------------------------------- Interval: further claims
\* A step in which a tick() call completes: a missed tick returns at once, a tick
\* on time returns after its sleep.
TickCompletes ==
    \/ pc = "idle" /\ op' = "tick" /\ pc' = "done"
    \/ pc = "tick_resume" /\ pc' = "done"

\* C34: under every missed-tick policy each tick() call strictly increases
\* next_tick: by exactly period when on time or under Burst, to a value later
\* than now, which is later than the old next_tick, under Delay and Skip.  The
\* call returns the old next_tick, and next_tick changes in no other step than a
\* completing tick() or a reset(), so the instants returned by successive tick()
\* calls without a reset() between them strictly increase.  After a missed tick
\* under Skip or Delay next_tick is later than the clock reading of that call, so
\* a tick() that follows at once is not a miss.
C34_NextTickIncreases ==
    [][ /\ TickCompletes =>
            /\ ret' = next_tick
            /\ next_tick' > next_tick
            /\ IF obs'.branch = "ontime" \/ missed_tick_behavior = "Burst"
               THEN next_tick' = next_tick + period
               ELSE /\ obs'.branch = "missed"
                    /\ now > next_tick
                    /\ next_tick' > now
                    /\ ~IsMissed(now, next_tick')
        /\ next_tick' # next_tick => (TickCompletes \/ ResetStep)
      ]_vars

\* A second tick() in a row was missed under Delay and has moved next_tick past
\* the clock, more than a period after the instant it returned.
C34_Witness ==
    /\ pc = "done" /\ op = "tick"
    /\ obs.branch = "missed"
    /\ ~obs.first
    /\ missed_tick_behavior = "Delay"
    /\ next_tick > now
    /\ next_tick > ret + period
    /\ ~hist.anchored

\* The getters of an Interval return its fields.
MissedTickBehaviorGetter == missed_tick_behavior
PeriodGetter == period
SpinSleeperGetter == sleeper

\* C35: the configuration of an Interval. Its period is positive in every state
\* and no operation (tick, reset, setters) changes it; a new Interval has the
\* policy Skip and the default sleeper; a step that changes the policy or the
\* sleeper is a setter call on an idle Interval that changes that field only and
\* leaves next_tick and period as they are, so that each getter returns the value
\* last set.
C35_ConfigInvariant ==
    [][ /\ IntervalBuilt' => PeriodGetter' > 0
        /\ IntervalBuilt => PeriodGetter' = PeriodGetter
        /\ (pc = "unbuilt" /\ IntervalBuilt') =>
            /\ MissedTickBehaviorGetter' = "Skip"
            /\ SpinSleeperGetter' = DEFAULT_NATIVE_SLEEP_ACCURACY
            /\ next_tick' = now
        /\ (IntervalBuilt /\ MissedTickBehaviorGetter' # MissedTickBehaviorGetter) =>
            /\ pc = "idle" /\ pc' = "idle"
            /\ MissedTickBehaviorGetter' \in Behaviors
            /\ UNCHANGED <<next_tick, period, sleeper, now>>
        /\ (IntervalBuilt /\ SpinSleeperGetter' # SpinSleeperGetter) =>
            /\ pc = "idle" /\ pc' = "idle"
            /\ UNCHANGED <<next_tick, period, missed_tick_behavior, now>>
      ]_vars

\* An Interval of the largest period, set to Delay and to a sleeper of accuracy 0,
\* has ticked and has just been reset.
C35_Witness ==
    /\ pc = "idle"
    /\ hist.ticked
    /\ hist.resetAt = now
    /\ now > 0
    /\ MissedTickBehaviorGetter = "Delay"
    /\ SpinSleeperGetter = 0
    /\ PeriodGetter = MaxPeriod
    /\ next_tick = now + PeriodGetter



\* ------------------------------------------------ Timer initialisation: claims
\* C36: the shared timer-resolution state is initialised at most once per process
\* and the timer handle at most once per thread, whatever the interleaving of the
\* threads' first native_sleep / sleep_accuracy calls. The cell of the minimum
\* period is written only while it is empty, by the call that runs the query, and
\* never again; a call whose query failed gets 1; every call that consulted the
\* period holds the cell's value, so all callers observe the same one; a thread's
\* timer, once created (or found unavailable), stays what it is, and every
\* high-resolution wait of the thread uses it.
C36_InitialisedOnce ==
    [][ /\ min_time_period # 0 => min_time_period' = min_time_period
        /\ min_time_period' # min_time_period =>
            /\ min_time_period' \in 1..MaxMinPeriod
            /\ \E t \in Threads :
                /\ win[t].pc \in {"idle", "hr_wait"}
                /\ win[t].p = 0 /\ win'[t].p = min_time_period'
        /\ \A t \in Threads :
            /\ (win'[t].query_failed /\ ~win[t].query_failed) =>
                /\ min_time_period = 0
                /\ min_time_period' = 1
                /\ win'[t].p = 1
            /\ win'[t].p # 0 => win'[t].p = min_time_period'
            /\ win[t].timer # "uninit" => win'[t].timer = win[t].timer
            /\ win'[t].pc # "idle" => win'[t].timer # "uninit"
            /\ win'[t].pc = "hr_wait" => win'[t].timer = "ok"
      ]_vars

\* Two threads made their first calls at the same clock value: one created its
\* timer, had its wait fail and ran the failing query in the fallback, the other
\* could not create a timer and asked for the sleep accuracy, which it derived
\* from the value the first had stored.
C36_Witness ==
    \E t, u \in Threads :
        /\ t # u
        /\ now = 0
        /\ min_time_period = 1
        /\ win[t].pc = "fb_sleep" /\ win[t].timer = "ok" /\ win[t].err = "wait"
        /\ win[t].query_failed /\ win[t].p = 1
        /\ win[u].pc = "done" /\ win[u].path = "accuracy" /\ win[u].timer = "err"
        /\ ~win[u].query_failed /\ win[u].p = 1
=============================================================================
